---- MODULE Spec2Model ----
(***************************************************************************)
(* Product catalogue: the paginated read path (GET /api/products and       *)
(* ProductService) and the client products slice (productsSlice).          *)
(*                                                                         *)
(* Text is a sequence of one-character strings, so that parseInt,          *)
(* toString, trim and the search match are computed, not assumed.          *)
(* A JavaScript number is [nan |-> BOOLEAN, val |-> Int].                   *)
(* A JavaScript object is a function from its own keys to values; reading  *)
(* a key yields the set {value}, or {} (undefined) when the key is absent.  *)
(***************************************************************************)
EXTENDS Integers, Sequences, FiniteSets, TLC

VARIABLES
    store,          \* server: the products collection, a set of documents
    now,            \* server: the clock read by new Date()
    nextId,         \* server: the next ObjectId the store assigns
    hasTextIndex,   \* server: whether product_search_index exists
    req,            \* server: the GET /api/products request in progress
    resp,           \* server: the response of the last finished GET
    accessLog,      \* server: the store reads done for the request in progress
    svcRet,         \* server: what the last ProductService CRUD call returned
    createdRet,     \* server: id string -> Product returned by createProduct
    updatedIds,     \* server: id strings updated since their creation
    state,          \* client: the products slice state
    inflight,       \* client: the thunks dispatched and not yet settled
    nextReq,        \* client: the sequence number of the next dispatch
    ev,             \* client: the last action reduced
    scn,            \* client: progress of a search-then-category sequence
    indexes,        \* server: the other indexes of the products collection
    setup,          \* server: the index-creation routine in progress, or the last one
    form,           \* dashboard: the variations of the product form dialog
    conn,           \* server: the module-level connection promise and its users
    submit          \* dashboard: the values of a form submission and what is sent

serverVars == <<store, now, nextId, hasTextIndex, req, resp, accessLog,
                svcRet, createdRet, updatedIds>>
clientVars == <<state, inflight, nextReq, ev, scn>>
setupVars == <<indexes, setup>>
formVars == <<form>>
connVars == <<conn>>
submitVars == <<submit>>
vars == <<store, now, nextId, hasTextIndex, req, resp, accessLog, svcRet,
          createdRet, updatedIds, state, inflight, nextReq, ev, scn,
          indexes, setup, form, conn, submit>>

----------------------------------------------------------------------------
(* Bounds *)

MaxProducts == 2
MaxClock == 1
MaxPage == 2
MaxOps == 3
MaxRuns == 2
MaxVariations == 2
MaxFormTime == 1
MaxEdits == 4
MaxLoads == 2
MaxCalls == 3

----------------------------------------------------------------------------
(* Text and numbers *)

Digits == <<"0", "1", "2", "3", "4", "5", "6", "7", "8", "9">>

IsDigit(c) == \E i \in 1..10 : Digits[i] = c

DigitVal(c) == (CHOOSE i \in 1..10 : Digits[i] = c) - 1

IsSpace(c) == c = " "

Lower(c) ==
    CASE c = "M" -> "m"
      [] c = "C" -> "c"
      [] c = "U" -> "u"
      [] OTHER -> c

LowerStr(s) == [i \in 1..Len(s) |-> Lower(s[i])]

RECURSIVE TrimStart(_)
TrimStart(s) ==
    IF s # <<>> /\ IsSpace(Head(s)) THEN TrimStart(Tail(s)) ELSE s

RECURSIVE TrimEnd(_)
TrimEnd(s) ==
    IF s # <<>> /\ IsSpace(s[Len(s)])
    THEN TrimEnd(SubSeq(s, 1, Len(s) - 1))
    ELSE s

Trim(s) == TrimEnd(TrimStart(s))

Num(n) == [nan |-> FALSE, val |-> n]

NaN == [nan |-> TRUE, val |-> 0]

\* JavaScript <, > on numbers: every comparison with NaN is false
JsLt(a, b) == ~a.nan /\ ~b.nan /\ a.val < b.val

JsGt(a, b) == ~a.nan /\ ~b.nan /\ a.val > b.val

RECURSIVE DigitPrefix(_)
DigitPrefix(s) ==
    IF s # <<>> /\ IsDigit(Head(s))
    THEN <<Head(s)>> \o DigitPrefix(Tail(s))
    ELSE <<>>

RECURSIVE DigitsValue(_)
DigitsValue(ds) ==
    IF ds = <<>> THEN 0
    ELSE 10 * DigitsValue(SubSeq(ds, 1, Len(ds) - 1)) + DigitVal(ds[Len(ds)])

\* parseInt(s): leading white space, an optional sign, then the longest run of
\* decimal digits; NaN when there is no digit
ParseInt(s) ==
    LET t == TrimStart(s)
        neg == t # <<>> /\ Head(t) = "-"
        signed == t # <<>> /\ (Head(t) = "-" \/ Head(t) = "+")
        body == IF signed THEN Tail(t) ELSE t
        ds == DigitPrefix(body)
    IN IF ds = <<>> THEN NaN
       ELSE Num(IF neg THEN 0 - DigitsValue(ds) ELSE DigitsValue(ds))

RECURSIVE NatToString(_)
NatToString(n) ==
    IF n < 10 THEN <<Digits[n + 1]>>
    ELSE NatToString(n \div 10) \o <<Digits[(n % 10) + 1]>>

\* Number.prototype.toString on an integer
NumToString(n) == IF n < 0 THEN <<"-">> \o NatToString(0 - n) ELSE NatToString(n)

\* a rounding slip: Math.floor in place of Math.ceil
MathCeilDiv_Floor(a, b) == a \div b

\* Math.ceil(a / b) for a >= 0, b >= 1
MathCeilDiv(a, b) == IF a % b = 0 THEN a \div b ELSE (a \div b) + 1

Min(a, b) == IF a < b THEN a ELSE b

----------------------------------------------------------------------------
(* Objects *)

\* o.k : {value}, or {} for undefined
Read(o, k) == IF k \in DOMAIN o THEN {o[k]} ELSE {}

\* { ...a, ...b }
Spread(a, b) ==
    [k \in (DOMAIN a) \cup (DOMAIN b) |-> IF k \in DOMAIN b THEN b[k] ELSE a[k]]

----------------------------------------------------------------------------
(* Text constants and inputs *)

sBlank == <<" ">>
sAll == <<"a", "l", "l">>
sC1 == <<"c", "1">>
sC2 == <<"c", "2">>
sTea == <<"T", "e", "a">>
sCups == <<"C", "u", "p", "s">>
sRedMug == <<"r", "e", "d", " ", "M", "u", "g">>
sSmug == <<"s", "m", "u", "g">>
sSearchMug == <<"m", "u", "g">>

\* product data posted to createProduct (a parsed JSON body: no undefined values)
DataMug ==
    [name |-> sTea, description |-> sRedMug, price |-> 10, categoryId |-> sC1,
     hasVariations |-> FALSE, frontImage |-> "u1", angles |-> <<"front">>]

DataCup ==
    [name |-> sCups, description |-> sSmug, price |-> 5, categoryId |-> sC2,
     hasVariations |-> TRUE, variations |-> <<>>,
     purchaseLimit |-> [enabled |-> TRUE, maxQuantityPerOrder |-> 2],
     stockQuantity |-> 7]

ProductDatas == {DataMug, DataCup}

PartialDatas == {[price |-> 11], [name |-> sCups, backImage |-> "u2"]}

\* a query parameter: absent (searchParams.get gives null) or a string
Absent == [present |-> FALSE, s |-> <<>>]

Param(s) == [present |-> TRUE, s |-> s]

PageParams ==
    {Absent, Param(<<>>), Param(<<"0">>), Param(<<"2">>), Param(<<"-", "1">>),
     Param(<<"x">>)}

LimitParams ==
    {Absent, Param(<<"0">>), Param(<<"1">>), Param(<<"1", "0", "0", "1">>),
     Param(<<"x">>)}

SearchParams == {Absent, Param(sSearchMug), Param(sBlank)}

CategoryParams == {Absent, Param(sAll), Param(sC1)}

----------------------------------------------------------------------------
(* ObjectId *)

\* ObjectId.toString(): a fixed-width hexadecimal string (2 characters here)
IdToString(n) == IF n < 10 THEN <<"0">> \o NatToString(n) ELSE NatToString(n)

\* new ObjectId(s) accepts exactly the fixed-width hexadecimal strings
IsValidObjectId(s) == Len(s) = 2 /\ \A i \in 1..2 : IsDigit(s[i])

ObjectIdOf(s) == DigitsValue(s)

----------------------------------------------------------------------------
(* Search match *)

\* s contains t as a contiguous substring
Contains(s, t) ==
    \E i \in 1..(Len(s) + 1) :
        i + Len(t) - 1 <= Len(s) /\ SubSeq(s, i, i + Len(t) - 1) = t

\* a slip: the regular expression without the 'i' option
RegexMatch_CaseSensitive(doc, field, search) ==
    field \in DOMAIN doc /\ Contains(doc[field], search)

\* { field: { $regex: search, $options: 'i' } }
RegexMatch(doc, field, search) ==
    field \in DOMAIN doc /\ Contains(LowerStr(doc[field]), LowerStr(search))

\* the stem the text index keeps for a word: a plural s is dropped (the one
\* suffix rule the words used here can meet)
Stem(w) ==
    IF Len(w) > 3 /\ w[Len(w)] = "s" /\ w[Len(w) - 1] # "s"
    THEN SubSeq(w, 1, Len(w) - 1)
    ELSE w

\* the words of a text, lower-cased and stemmed
RECURSIVE Tokens(_)
Tokens(s) ==
    LET t == TrimStart(s)
        n == IF \E i \in 1..Len(t) : IsSpace(t[i])
             THEN (CHOOSE i \in 1..Len(t) :
                       IsSpace(t[i]) /\ \A j \in 1..(i - 1) : ~IsSpace(t[j])) - 1
             ELSE Len(t)
    IN IF t = <<>> THEN {}
       ELSE {Stem(LowerStr(SubSeq(t, 1, n)))} \cup Tokens(SubSeq(t, n + 1, Len(t)))

\* { $text: { $search: search } } over the index on name and description:
\* some word of the search is, after stemming, a word of an indexed field
TextMatch(doc, search) ==
    \E f \in {"name", "description"} :
        f \in DOMAIN doc /\ Tokens(search) \cap Tokens(doc[f]) # {}

NoMatchConditions == [category |-> {}, mode |-> "none", search |-> <<>>]

\* a slip: a failed probe is taken for an existing index
MatchConditions_ErrorMeansIndexed(search, categoryId, probe) ==
    [category |-> IF categoryId # <<>> /\ categoryId # sAll THEN {categoryId} ELSE {},
     mode |-> IF search # <<>> /\ Trim(search) # <<>>
              THEN (IF probe = "missing" THEN "regex" ELSE "text")
              ELSE "none",
     search |-> IF search # <<>> /\ Trim(search) # <<>> THEN search ELSE <<>>]

\* matchConditions, given the outcome of the index probe
\* (probe: "exists", "missing" or "error")
MatchConditions(search, categoryId, probe) ==
    [category |-> IF categoryId # <<>> /\ categoryId # sAll THEN {categoryId} ELSE {},
     mode |-> IF search # <<>> /\ Trim(search) # <<>>
              THEN (IF probe = "exists" THEN "text" ELSE "regex")
              ELSE "none",
     search |-> IF search # <<>> /\ Trim(search) # <<>> THEN search ELSE <<>>]

\* a slip: the two constraints are alternatives
Matches_EitherPart(doc, mc) ==
    \/ mc.category = {} /\ mc.mode = "none"
    \/ mc.category # {} /\ Read(doc, "categoryId") = mc.category
    \/ mc.mode = "text" /\ TextMatch(doc, mc.search)
    \/ mc.mode = "regex" /\
           (RegexMatch(doc, "name", mc.search) \/ RegexMatch(doc, "description", mc.search))

\* { $match: matchConditions }
Matches(doc, mc) ==
    /\ mc.category # {} => Read(doc, "categoryId") = mc.category
    /\ mc.mode = "text" => TextMatch(doc, mc.search)
    /\ mc.mode = "regex" =>
           RegexMatch(doc, "name", mc.search) \/ RegexMatch(doc, "description", mc.search)

Matching(st, mc) == {d \in st : Matches(d, mc)}

----------------------------------------------------------------------------
(* ProductService: shapes *)

ProjectFields ==
    {"id", "name", "price", "image", "categoryId", "subcategoryIds", "description",
     "inStock", "createdAt", "updatedAt", "hasVariations", "variations",
     "eligibleForCoupons", "type", "baseColor", "angles", "colors", "purchaseLimit",
     "frontImage", "backImage", "leftImage", "rightImage", "materialImage",
     "frontAltText", "backAltText", "leftAltText", "rightAltText", "materialAltText"}

\* the keys createProduct writes explicitly after the spread
CreateExplicitFields ==
    {"hasVariations", "variations", "eligibleForCoupons", "type", "baseColor",
     "angles", "colors", "purchaseLimit",
     "frontImage", "backImage", "leftImage", "rightImage", "materialImage",
     "frontAltText", "backAltText", "leftAltText", "rightAltText", "materialAltText"}

\* A returned Product is a function from its own keys to {value} or {} (undefined).
\* p.k
Get(p, k) == IF k \in DOMAIN p THEN p[k] ELSE {}

\* the object literal of getAllProducts / getProductById / updateProduct
NormalizedProduct(doc) ==
    [k \in ProjectFields |-> IF k = "id" THEN {IdToString(doc["_id"])} ELSE Read(doc, k)]

\* the object literal createProduct returns
CreatedProduct(insertedId, productData) ==
    [k \in {"id"} \cup (DOMAIN productData) \cup CreateExplicitFields |->
        IF k = "id" THEN {IdToString(insertedId)} ELSE Read(productData, k)]

\* $addFields { id: { $toString: "$_id" } } then the inclusion $project:
\* only the fields the document has are produced
ProjectedProduct(doc) ==
    [k \in ((DOMAIN doc) \cap ProjectFields) \cup {"id"} |->
        IF k = "id" THEN {IdToString(doc["_id"])} ELSE {doc[k]}]

\* newProduct as inserted
NewProductDocument(insertedId, productData, date) ==
    Spread(Spread(productData, [createdAt |-> date, updatedAt |-> date]),
           [_id |-> insertedId])

----------------------------------------------------------------------------
(* ProductService.getProductsPaginated: the computations between the awaits *)

\* a slip: pages counted from zero
Skip_PageTimesLimit(page, limit) == page * limit

\* const skip = (page - 1) * limit
Skip(page, limit) == (page - 1) * limit

\* the orders { $sort: { createdAt: -1 } } can produce: any arrangement of the
\* documents with createdAt non-increasing (ties are in store order)
SortedByCreatedAtDesc(docs) ==
    {sq \in [1..Cardinality(docs) -> docs] :
        /\ \A i, j \in 1..Cardinality(docs) : i # j => sq[i] # sq[j]
        /\ \A i \in 1..(Cardinality(docs) - 1) :
               sq[i]["createdAt"] >= sq[i + 1]["createdAt"]}

\* { $skip: skip }, { $limit: limit } on the sorted documents
SkipLimit(sq, skip, limit) == SubSeq(sq, skip + 1, Min(Len(sq), skip + limit))

\* the pipeline's result for one sort order
PipelineResult(sq, skip, limit) ==
    LET page == SkipLimit(sq, skip, limit)
    IN [i \in 1..Len(page) |-> ProjectedProduct(page[i])]

\* a slip: the total is that of collection.countDocuments({})
CountTotal_AllDocuments(st, mc) == Cardinality(st)

\* countResult?.total || 0
CountTotal(st, mc) == Cardinality(Matching(st, mc))

\* a slip: the page is reported zero-based
PaginationOf_ZeroBased(page, limit, total) ==
    LET totalPages == MathCeilDiv(total, limit)
    IN [page |-> page - 1, limit |-> limit, total |-> total, totalPages |-> totalPages,
        hasNext |-> page < totalPages, hasPrev |-> page > 1]

\* the returned pagination object
PaginationOf(page, limit, total) ==
    LET totalPages == MathCeilDiv(total, limit)
    IN [page |-> page, limit |-> limit, total |-> total, totalPages |-> totalPages,
        hasNext |-> page < totalPages, hasPrev |-> page > 1]

----------------------------------------------------------------------------
(* GET /api/products *)

\* searchParams.get(name) || dflt
OrDefault(param, dflt) ==
    IF param.present /\ param.s # <<>> THEN param.s ELSE dflt

\* a validation slip: the upper limit is not checked
InvalidPagination_NoUpperLimit(page, limit) ==
    JsLt(page, Num(1)) \/ JsLt(limit, Num(1))

\* if (page < 1 || limit < 1 || limit > 1000)
InvalidPagination(page, limit) ==
    JsLt(page, Num(1)) \/ JsLt(limit, Num(1)) \/ JsGt(limit, Num(1000))

NoPagination ==
    [page |-> 0, limit |-> 0, total |-> 0, totalPages |-> 0,
     hasNext |-> FALSE, hasPrev |-> FALSE]

IdleReq ==
    [pc |-> "idle", page |-> Num(0), limit |-> Num(0), search |-> <<>>,
     categoryId |-> <<>>, mc |-> NoMatchConditions, total |-> 0]

NoResp ==
    [status |-> 0, error |-> "", details |-> {}, data |-> <<>>,
     pagination |-> NoPagination,
     page |-> Num(0), limit |-> Num(0), accesses |-> {}]

\* NextResponse.json({ error, ... }, { status: 500 })
ErrorResp(error, details, r, log) ==
    [NoResp EXCEPT !.status = 500, !.error = error, !.details = details,
                   !.page = r.page, !.limit = r.limit, !.accesses = log]

\* what a failing store call throws: an Error with its message, or another value
Thrown == {[isError |-> TRUE, message |-> "store failure"],
           [isError |-> FALSE, message |-> ""]}

\* error instanceof Error ? error.message : 'Unknown error'
DetailsOf(thrown) == IF thrown.isError THEN thrown.message ELSE "Unknown error"

Access(op, r) == [op |-> op, page |-> r.page, limit |-> r.limit]

\* the request arrives: parameters are parsed and validated.
\* One request is followed from its arrival to its response; the handler keeps
\* nothing from one request to the next.
GetStart(q) ==
    /\ req.pc = "idle"
    /\ resp = NoResp
    /\ LET page == ParseInt(OrDefault(q.page, <<"1">>))
           limit == ParseInt(OrDefault(q.limit, <<"1", "0">>))
           r == [IdleReq EXCEPT !.page = page, !.limit = limit,
                                !.search = OrDefault(q.search, <<>>),
                                !.categoryId = OrDefault(q.categoryId, <<>>)]
       IN IF InvalidPagination(page, limit)
          THEN /\ resp' = ErrorResp("Invalid pagination parameters", {}, r, {})
               /\ req' = IdleReq
          ELSE /\ req' = [r EXCEPT !.pc = "countDocuments"]
               /\ resp' = NoResp
    /\ accessLog' = {}
    /\ UNCHANGED <<store, now, nextId, hasTextIndex, svcRet, createdRet, updatedIds>>
    /\ UNCHANGED <<clientVars, setupVars, formVars, connVars, submitVars>>

\* a different design: a failed store read is attempted again
GetFails_Retries(op) ==
    /\ req.pc = op
    /\ accessLog' = accessLog \cup {Access(op, req)}
    /\ UNCHANGED <<req, resp>>
    /\ UNCHANGED <<store, now, nextId, hasTextIndex, svcRet, createdRet, updatedIds>>
    /\ UNCHANGED <<clientVars, setupVars, formVars, connVars, submitVars>>

\* a store read throws: getProductsPaginated lets it through (rethrows it) and
\* the route's catch answers 500 with { error, details }
GetFails(op) ==
    /\ req.pc = op
    /\ \E thrown \in Thrown :
         resp' = ErrorResp("Failed to fetch products", {DetailsOf(thrown)}, req,
                           accessLog \cup {Access(op, req)})
    /\ req' = IdleReq
    /\ accessLog' = {}
    /\ UNCHANGED <<store, now, nextId, hasTextIndex, svcRet, createdRet, updatedIds>>
    /\ UNCHANGED <<clientVars, setupVars, formVars, connVars, submitVars>>

\* const totalDocuments = await collection.countDocuments({})
SvcCountDocuments ==
    /\ req.pc = "countDocuments"
    /\ accessLog' = accessLog \cup {Access("countDocuments", req)}
    /\ IF req.search # <<>> /\ Trim(req.search) # <<>>
       THEN req' = [req EXCEPT !.pc = "indexExists"]
       ELSE req' = [req EXCEPT !.pc = "countAggregate",
                               !.mc = MatchConditions(req.search, req.categoryId, "none")]
    /\ UNCHANGED <<store, now, nextId, hasTextIndex, resp, svcRet, createdRet, updatedIds>>
    /\ UNCHANGED <<clientVars, setupVars, formVars, connVars, submitVars>>

\* await collection.indexExists('product_search_index'), which may throw
SvcIndexExists(threw) ==
    /\ req.pc = "indexExists"
    /\ accessLog' = accessLog \cup {Access("indexExists", req)}
    /\ LET probe == IF threw THEN "error"
                    ELSE IF hasTextIndex THEN "exists" ELSE "missing"
       IN req' = [req EXCEPT !.pc = "countAggregate",
                             !.mc = MatchConditions(req.search, req.categoryId, probe)]
    /\ UNCHANGED <<store, now, nextId, hasTextIndex, resp, svcRet, createdRet, updatedIds>>
    /\ UNCHANGED <<clientVars, setupVars, formVars, connVars, submitVars>>

\* const [countResult] = await collection.aggregate(countPipeline).toArray()
SvcCountAggregate ==
    /\ req.pc = "countAggregate"
    /\ accessLog' = accessLog \cup {Access("countAggregate", req)}
    /\ req' = [req EXCEPT !.pc = "pageAggregate",
                          !.total = CountTotal(store, req.mc)]
    /\ UNCHANGED <<store, now, nextId, hasTextIndex, resp, svcRet, createdRet, updatedIds>>
    /\ UNCHANGED <<clientVars, setupVars, formVars, connVars, submitVars>>

\* const products = await collection.aggregate(pipeline).toArray(), then the
\* pagination is computed and the route answers with the result.
\* A NaN $skip or $limit is not a valid stage argument: only GetFails applies.
SvcPageAggregate ==
    /\ req.pc = "pageAggregate"
    /\ ~req.page.nan /\ ~req.limit.nan
    /\ \E sq \in SortedByCreatedAtDesc(Matching(store, req.mc)) :
         resp' = [status |-> 200, error |-> "", details |-> {},
                  data |-> PipelineResult(sq, Skip(req.page.val, req.limit.val),
                                          req.limit.val),
                  pagination |-> PaginationOf(req.page.val, req.limit.val, req.total),
                  page |-> req.page, limit |-> req.limit,
                  accesses |-> accessLog \cup {Access("pageAggregate", req)}]
    /\ req' = IdleReq
    /\ accessLog' = {}
    /\ UNCHANGED <<store, now, nextId, hasTextIndex, svcRet, createdRet, updatedIds>>
    /\ UNCHANGED <<clientVars, setupVars, formVars, connVars, submitVars>>

----------------------------------------------------------------------------
(* ProductService: create, read by id, update, delete *)

NoProduct == <<>>

NoRet == [op |-> "none", id |-> <<>>, outcome |-> "none", product |-> NoProduct]

FindById(st, s) == {d \in st : d["_id"] = ObjectIdOf(s)}

\* createProduct(productData)
CreateProduct(productData) ==
    /\ nextId <= MaxProducts
    /\ LET doc == NewProductDocument(nextId, productData, now)
           ret == CreatedProduct(nextId, productData)
       IN /\ store' = store \cup {doc}
          /\ svcRet' = [op |-> "createProduct", id |-> IdToString(nextId),
                        outcome |-> "product", product |-> ret]
          /\ createdRet' = [k \in (DOMAIN createdRet) \cup {IdToString(nextId)} |->
                               IF k = IdToString(nextId) THEN ret ELSE createdRet[k]]
    /\ nextId' = nextId + 1
    /\ UNCHANGED <<now, hasTextIndex, req, resp, accessLog, updatedIds>>
    /\ UNCHANGED <<clientVars, setupVars, formVars, connVars, submitVars>>

\* getProductById(id): new ObjectId(id) throws on a malformed id
GetProductById(id) ==
    /\ IF ~IsValidObjectId(id)
       THEN svcRet' = [op |-> "getProductById", id |-> id, outcome |-> "throws",
                       product |-> NoProduct]
       ELSE IF FindById(store, id) = {}
       THEN svcRet' = [op |-> "getProductById", id |-> id, outcome |-> "null",
                       product |-> NoProduct]
       ELSE svcRet' = [op |-> "getProductById", id |-> id, outcome |-> "product",
                       product |-> NormalizedProduct(CHOOSE d \in FindById(store, id) : TRUE)]
    /\ UNCHANGED <<store, now, nextId, hasTextIndex, req, resp, accessLog,
                   createdRet, updatedIds>>
    /\ UNCHANGED <<clientVars, setupVars, formVars, connVars, submitVars>>

\* getAllProducts(): find({}).toArray() mapped to the object literal
GetAllProducts(st) == {NormalizedProduct(d) : d \in st}

\* what findOneAndUpdate resolves to depends on the driver: the document (or
\* null), or a result object { value, ok, lastErrorObject }
DriverResults == {"document", "metadata"}

\* updateProduct(id, productData): findOneAndUpdate with $set, returnDocument after;
\* result = res?.value ?? res. With a result object whose value is null, result
\* is the result object itself and result._id!.toString() throws
UpdateProduct(id, productData) ==
    /\ IF ~IsValidObjectId(id)
       THEN /\ svcRet' = [op |-> "updateProduct", id |-> id, outcome |-> "throws",
                          product |-> NoProduct]
            /\ UNCHANGED <<store, updatedIds>>
       ELSE IF FindById(store, id) = {}
       THEN /\ \E res \in DriverResults :
                 svcRet' = [op |-> "updateProduct", id |-> id,
                            outcome |-> IF res = "document" THEN "null" ELSE "throws",
                            product |-> NoProduct]
            /\ UNCHANGED <<store, updatedIds>>
       ELSE LET old == CHOOSE d \in FindById(store, id) : TRUE
                new == Spread(old, Spread(productData, [updatedAt |-> now]))
            IN /\ store' = (store \ {old}) \cup {new}
               /\ updatedIds' = updatedIds \cup {id}
               /\ svcRet' = [op |-> "updateProduct", id |-> id, outcome |-> "product",
                             product |-> NormalizedProduct(new)]
    /\ UNCHANGED <<now, nextId, hasTextIndex, req, resp, accessLog, createdRet>>
    /\ UNCHANGED <<clientVars, setupVars, formVars, connVars, submitVars>>

\* deleteProduct(id): deleteOne, result.deletedCount > 0
DeleteProduct(id) ==
    /\ IF ~IsValidObjectId(id)
       THEN /\ svcRet' = [op |-> "deleteProduct", id |-> id, outcome |-> "throws",
                          product |-> NoProduct]
            /\ store' = store
       ELSE /\ store' = store \ FindById(store, id)
            /\ svcRet' = [op |-> "deleteProduct", id |-> id,
                          outcome |-> IF FindById(store, id) # {} THEN "true" ELSE "false",
                          product |-> NoProduct]
    /\ UNCHANGED <<now, nextId, hasTextIndex, req, resp, accessLog, createdRet, updatedIds>>
    /\ UNCHANGED <<clientVars, setupVars, formVars, connVars, submitVars>>

\* createProduct called for another request, seen from the read path
OtherCreate(productData) ==
    /\ nextId <= MaxProducts
    /\ store' = store \cup {NewProductDocument(nextId, productData, now)}
    /\ nextId' = nextId + 1
    /\ UNCHANGED <<now, hasTextIndex, req, resp, accessLog, svcRet, createdRet, updatedIds>>
    /\ UNCHANGED <<clientVars, setupVars, formVars, connVars, submitVars>>

\* deleteProduct called for another request, seen from the read path
OtherDelete(id) ==
    /\ FindById(store, id) # {}
    /\ store' = store \ FindById(store, id)
    /\ UNCHANGED <<now, nextId, hasTextIndex, req, resp, accessLog, svcRet,
                   createdRet, updatedIds>>
    /\ UNCHANGED <<clientVars, setupVars, formVars, connVars, submitVars>>

\* time passes between two new Date() readings
Tick ==
    /\ now < MaxClock
    /\ now' = now + 1
    /\ UNCHANGED <<store, nextId, hasTextIndex, req, resp, accessLog, svcRet,
                   createdRet, updatedIds>>
    /\ UNCHANGED <<clientVars, setupVars, formVars, connVars, submitVars>>

----------------------------------------------------------------------------
(* The HTTP boundary as the client sees it *)

TheValue(opt) == CHOOSE v \in opt : TRUE

\* Date.prototype.toJSON: a Date becomes an ISO string
IsoString(date) == <<"T">> \o NatToString(date)

\* JSON.stringify then JSON.parse of a returned Product: keys whose value is
\* undefined are dropped, dates become strings
ToJson(p) ==
    [k \in {k \in DOMAIN p : p[k] # {}} |->
        IF k \in {"createdAt", "updatedAt"}
        THEN IsoString(TheValue(p[k]))
        ELSE TheValue(p[k])]

JsonData(products) == [i \in 1..Len(products) |-> ToJson(products[i])]

\* store contents the server may hold when it answers
DocMug == NewProductDocument(1, DataMug, 0)

DocCup == NewProductDocument(2, DataCup, 1)

Catalogues == {{}, {DocMug, DocCup}}

\* the products a client can hold or receive
ClientMug == ToJson(NormalizedProduct(DocMug))

ClientCup == ToJson(NormalizedProduct(DocCup))

ClientMugEdited ==
    ToJson(NormalizedProduct(Spread(DocMug, [price |-> 11, updatedAt |-> 2])))

HttpError == [status |-> 500, data |-> <<>>, pagination |-> NoPagination]

\* GET /api/products answered in one piece against store content st
GetResponses(st, indexed, q) ==
    LET page == ParseInt(OrDefault(q.page, <<"1">>))
        limit == ParseInt(OrDefault(q.limit, <<"1", "0">>))
        search == OrDefault(q.search, <<>>)
        categoryId == OrDefault(q.categoryId, <<>>)
        mc == MatchConditions(search, categoryId,
                              IF indexed THEN "exists" ELSE "missing")
    IN IF InvalidPagination(page, limit) \/ page.nan \/ limit.nan
       THEN {HttpError}
       ELSE {HttpError} \cup
            {[status |-> 200,
              data |-> JsonData(PipelineResult(sq, Skip(page.val, limit.val), limit.val)),
              pagination |-> PaginationOf(page.val, limit.val, CountTotal(st, mc))] :
                 sq \in SortedByCreatedAtDesc(Matching(st, mc))}

----------------------------------------------------------------------------
(* productsSlice: state and reducers *)

\* a JSON value that is a list, or one that is not
JsonList(l) == [isArray |-> TRUE, elems |-> l]

NotAList == [isArray |-> FALSE, elems |-> <<>>]

initialState ==
    [items |-> JsonList(<<>>),
     loading |-> FALSE,
     error |-> {},
     pagination |-> [page |-> 1, limit |-> 10, total |-> 0, totalPages |-> 0,
                     hasNext |-> FALSE, hasPrev |-> FALSE],
     searchTerm |-> <<>>,
     selectedCategory |-> sAll,
     pageCache |-> <<>>]

\* obj[key] = value
Put(obj, key, value) ==
    [k \in (DOMAIN obj) \cup {key} |-> IF k = key THEN value ELSE obj[k]]

\* action.error.message || dflt
MessageOr(msg, dflt) == IF msg = "" THEN dflt ELSE msg

setPage(s, p) == [s EXCEPT !.pagination.page = p]

\* a slip: the page is not reset
setSearchTerm_KeepsPage(s, t) == [s EXCEPT !.searchTerm = t]

setSearchTerm(s, t) == [s EXCEPT !.searchTerm = t, !.pagination.page = 1]

\* a different design: a new category drops the cached pages
setSelectedCategory_InvalidatesCache(s, c) ==
    [s EXCEPT !.selectedCategory = c, !.pagination.page = 1, !.pageCache = <<>>]

setSelectedCategory(s, c) == [s EXCEPT !.selectedCategory = c, !.pagination.page = 1]

clearPageCache(s) == [s EXCEPT !.pageCache = <<>>]

\* state.pageCache[page] = products
cachePage(s, page, products) == [s EXCEPT !.pageCache = Put(@, page, products)]

\* every .pending case
pendingCase(s) == [s EXCEPT !.loading = TRUE, !.error = {}]

\* a slip: a failure blanks the list
rejectedCase_ClearsItems(s, msg, dflt) ==
    [s EXCEPT !.loading = FALSE, !.error = {MessageOr(msg, dflt)},
              !.items = [isArray |-> TRUE, elems |-> <<>>]]

\* every .rejected case
rejectedCase(s, msg, dflt) == [s EXCEPT !.loading = FALSE, !.error = {MessageOr(msg, dflt)}]

\* a slip: the cache keeps only the page just fetched
fetchProductsPaginatedFulfilled_ReplacesCache(s, payload) ==
    [s EXCEPT !.loading = FALSE,
              !.items = [isArray |-> TRUE, elems |-> payload.data],
              !.pagination = payload.pagination,
              !.pageCache = [k \in {payload.pagination.page} |-> payload.data]]

fetchProductsPaginatedFulfilled(s, payload) ==
    [s EXCEPT !.loading = FALSE,
              !.items = JsonList(payload.data),
              !.pagination = payload.pagination,
              !.pageCache = Put(@, payload.pagination.page, payload.data)]

fetchProductsFulfilled(s, payload) == [s EXCEPT !.loading = FALSE, !.items = payload]

\* state.items.push / findIndex / filter throw when items is not a list: the
\* reducer's draft is discarded and the state stays as it was
createProductFulfilled(s, payload) ==
    IF ~s.items.isArray THEN s
    ELSE [s EXCEPT !.loading = FALSE,
                   !.items = JsonList(Append(s.items.elems, payload))]

updateProductFulfilled(s, payload) ==
    IF ~s.items.isArray THEN s
    ELSE LET items == s.items.elems
             found == {i \in 1..Len(items) : items[i]["id"] = payload["id"]}
             index == IF found = {} THEN -1
                      ELSE CHOOSE i \in found : \A j \in found : i <= j
         IN [s EXCEPT !.loading = FALSE,
                      !.items = IF index # -1
                                THEN JsonList([items EXCEPT ![index] = payload])
                                ELSE @]

deleteProductFulfilled(s, payload) ==
    IF ~s.items.isArray THEN s
    ELSE [s EXCEPT !.loading = FALSE,
                   !.items = JsonList(SelectSeq(s.items.elems,
                                                LAMBDA item : item["id"] # payload))]

\* const safeProducts = Array.isArray(products) ? products : []
safeProducts(items) == IF items.isArray THEN items.elems ELSE <<>>

----------------------------------------------------------------------------
(* productsSlice: thunks *)

\* the query string fetchProductsPaginated builds from its params
QueryOf(params) ==
    [page |-> Param(NumToString(params.page)),
     limit |-> Param(NumToString(params.limit)),
     search |-> IF params.search # <<>> THEN Param(params.search) ELSE Absent,
     categoryId |-> IF params.categoryId # <<>> THEN Param(params.categoryId) ELSE Absent]

\* "/api/products?page=1&limit=1000"
LegacyQuery ==
    [page |-> Param(<<"1">>), limit |-> Param(<<"1", "0", "0", "0">>),
     search |-> Absent, categoryId |-> Absent]

\* a parsed response body of the fetch-all request
PaginatedBody(data) ==
    [isArray |-> FALSE, elems |-> <<>>, hasData |-> TRUE, data |-> JsonList(data)]

BareArrayBody(l) ==
    [isArray |-> TRUE, elems |-> l, hasData |-> FALSE, data |-> NotAList]

ObjectBody(hasData) ==
    [isArray |-> FALSE, elems |-> <<>>, hasData |-> hasData, data |-> NotAList]

ForeignBodies == {BareArrayBody(<<ClientMug>>), ObjectBody(FALSE), ObjectBody(TRUE)}

\* what the fetchProducts payload creator returns for an ok response
fetchProductsResult(result) ==
    IF result.hasData /\ result.data.isArray
    THEN result.data
    ELSE [isArray |-> result.isArray, elems |-> result.elems]

Thunk(type, params, data, target) ==
    [type |-> type, page |-> params.page, limit |-> params.limit,
     search |-> params.search, categoryId |-> params.categoryId,
     data |-> data, target |-> target]

Params(page, limit, search, categoryId) ==
    [page |-> page, limit |-> limit, search |-> search, categoryId |-> categoryId]

NoParams == Params(0, 0, <<>>, <<>>)

\* the last action reduced: its type and the sequence number of its dispatch
Event(type, r) == [type |-> type, req |-> r]

InFlight(type) == {r \in DOMAIN inflight : inflight[r].type = type}

\* a different design: a new request cancels the earlier ones of its kind
Dispatch_TakeLatest(s, thunk) ==
    /\ nextReq <= MaxOps
    /\ inflight' = [k \in {r \in DOMAIN inflight : inflight[r].type # thunk.type}
                             \cup {nextReq} |->
                       IF k = nextReq THEN thunk ELSE inflight[k]]
    /\ nextReq' = nextReq + 1
    /\ state' = [s EXCEPT !.loading = TRUE, !.error = {}]

\* dispatch(thunk(arg)): the request is issued and .pending is reduced at once;
\* the requests already in flight stay in flight
Dispatch(s, thunk) ==
    /\ nextReq <= MaxOps
    /\ inflight' = Put(inflight, nextReq, thunk)
    /\ nextReq' = nextReq + 1
    /\ state' = pendingCase(s)

Settle(r) == inflight' = [k \in (DOMAIN inflight) \ {r} |-> inflight[k]]

NoScenario == [phase |-> 0, clean |-> FALSE, reqs |-> {}]

----------------------------------------------------------------------------
(* Client actions: the plain reducers *)

Pages == 1..MaxPage

SearchTerms == {<<>>, sSearchMug}

CategoryIds == {sAll, sC1}

SetPage(p) ==
    /\ state' = setPage(state, p)
    /\ ev' = Event("setPage", nextReq)
    /\ scn' = NoScenario
    /\ nextReq <= MaxOps
    /\ nextReq' = nextReq + 1
    /\ UNCHANGED inflight
    /\ UNCHANGED <<serverVars, setupVars, formVars, connVars, submitVars>>

SetSearchTerm(t) ==
    /\ state' = setSearchTerm(state, t)
    /\ ev' = Event("setSearchTerm", nextReq)
    /\ scn' = NoScenario
    /\ nextReq <= MaxOps
    /\ nextReq' = nextReq + 1
    /\ UNCHANGED inflight
    /\ UNCHANGED <<serverVars, setupVars, formVars, connVars, submitVars>>

SetSelectedCategory(c) ==
    /\ state' = setSelectedCategory(state, c)
    /\ ev' = Event("setSelectedCategory", nextReq)
    /\ scn' = NoScenario
    /\ nextReq <= MaxOps
    /\ nextReq' = nextReq + 1
    /\ UNCHANGED inflight
    /\ UNCHANGED <<serverVars, setupVars, formVars, connVars, submitVars>>

\* dispatch(clearPageCache())
ClearPageCache ==
    /\ state' = clearPageCache(state)
    /\ ev' = Event("clearPageCache", nextReq)
    /\ scn' = NoScenario
    /\ nextReq <= MaxOps
    /\ nextReq' = nextReq + 1
    /\ UNCHANGED inflight
    /\ UNCHANGED <<serverVars, setupVars, formVars, connVars, submitVars>>

\* dispatch(cachePage({ page, products }))
CachePage(page, products) ==
    /\ state' = cachePage(state, page, products)
    /\ ev' = Event("cachePage", nextReq)
    /\ scn' = NoScenario
    /\ nextReq <= MaxOps
    /\ nextReq' = nextReq + 1
    /\ UNCHANGED inflight
    /\ UNCHANGED <<serverVars, setupVars, formVars, connVars, submitVars>>

----------------------------------------------------------------------------
(* Client actions: the handlers of ProductsView and DesignToolContainer *)

\* useEffect on mount: dispatch(fetchProductsPaginated({ page: 1, limit: 10 }))
MountProductsView ==
    /\ Dispatch(state, Thunk("fetchProductsPaginated", Params(1, 10, <<>>, <<>>), {}, <<>>))
    /\ ev' = Event("fetchProductsPaginated/pending", nextReq)
    /\ scn' = NoScenario
    /\ UNCHANGED <<serverVars, setupVars, formVars, connVars, submitVars>>

handlePageChange(page) ==
    /\ Dispatch(setPage(state, page),
                Thunk("fetchProductsPaginated",
                      Params(page, 10, state.searchTerm, state.selectedCategory), {}, <<>>))
    /\ ev' = Event("handlePageChange", nextReq)
    /\ scn' = NoScenario
    /\ UNCHANGED <<serverVars, setupVars, formVars, connVars, submitVars>>

handleSearchChange(term) ==
    /\ Dispatch(setSearchTerm(state, term),
                Thunk("fetchProductsPaginated",
                      Params(1, 10, term, state.selectedCategory), {}, <<>>))
    /\ ev' = Event("handleSearchChange", nextReq)
    /\ scn' = [phase |-> 1, clean |-> InFlight("fetchProductsPaginated") = {},
               reqs |-> {nextReq}]
    /\ UNCHANGED <<serverVars, setupVars, formVars, connVars, submitVars>>

handleCategoryFilter(categoryIds) ==
    /\ LET categoryId == IF Len(categoryIds) > 0 THEN categoryIds[1] ELSE sAll
       IN Dispatch(setSelectedCategory(state, categoryId),
                   Thunk("fetchProductsPaginated",
                         Params(1, 10, state.searchTerm, categoryId), {}, <<>>))
    /\ ev' = Event("handleCategoryFilter", nextReq)
    /\ scn' = IF scn.phase = 1
              THEN [scn EXCEPT !.phase = 2, !.reqs = @ \cup {nextReq}]
              ELSE NoScenario
    /\ UNCHANGED <<serverVars, setupVars, formVars, connVars, submitVars>>

\* DesignToolContainer useEffect on mount: dispatch(fetchProducts())
MountDesignTool ==
    /\ Dispatch(state, Thunk("fetchProducts", NoParams, {}, <<>>))
    /\ ev' = Event("fetchProducts/pending", nextReq)
    /\ scn' = NoScenario
    /\ UNCHANGED <<serverVars, setupVars, formVars, connVars, submitVars>>

DispatchCreateProduct(productData) ==
    /\ Dispatch(state, Thunk("createProduct", NoParams, {productData}, <<>>))
    /\ ev' = Event("createProduct/pending", nextReq)
    /\ scn' = NoScenario
    /\ UNCHANGED <<serverVars, setupVars, formVars, connVars, submitVars>>

DispatchUpdateProduct(product) ==
    /\ Dispatch(state, Thunk("updateProduct", NoParams, {product}, <<>>))
    /\ ev' = Event("updateProduct/pending", nextReq)
    /\ scn' = NoScenario
    /\ UNCHANGED <<serverVars, setupVars, formVars, connVars, submitVars>>

DispatchDeleteProduct(id) ==
    /\ Dispatch(state, Thunk("deleteProduct", NoParams, {}, id))
    /\ ev' = Event("deleteProduct/pending", nextReq)
    /\ scn' = NoScenario
    /\ UNCHANGED <<serverVars, setupVars, formVars, connVars, submitVars>>

----------------------------------------------------------------------------
(* Client actions: a response arrives *)

\* what a failed request throws in the payload creator: the thunk's own Error
\* for a response that is not ok, or the error of fetch itself
FailureMessages(thrown) == {thrown, "Failed to fetch"}

\* the ok responses GET /api/products can give to request r
OkResponses(r) ==
    {res \in UNION {GetResponses(st, indexed, QueryOf(inflight[r])) :
                       st \in Catalogues, indexed \in BOOLEAN} :
        res.status = 200}

FetchPaginatedFulfilledWith(r, payload) ==
    /\ r \in InFlight("fetchProductsPaginated")
    /\ state' = fetchProductsPaginatedFulfilled(state, payload)
    /\ ev' = Event("fetchProductsPaginated/fulfilled", r)
    /\ Settle(r)
    /\ UNCHANGED <<nextReq, scn>>
    /\ UNCHANGED <<serverVars, setupVars, formVars, connVars, submitVars>>

FetchPaginatedFulfilled(r) ==
    /\ r \in InFlight("fetchProductsPaginated")
    /\ \E res \in OkResponses(r) :
         FetchPaginatedFulfilledWith(r, [data |-> res.data, pagination |-> res.pagination])

FetchPaginatedRejectedWith(r, msg) ==
    /\ r \in InFlight("fetchProductsPaginated")
    /\ state' = rejectedCase(state, msg, "Failed to fetch products")
    /\ ev' = Event("fetchProductsPaginated/rejected", r)
    /\ Settle(r)
    /\ UNCHANGED <<nextReq, scn>>
    /\ UNCHANGED <<serverVars, setupVars, formVars, connVars, submitVars>>

FetchPaginatedRejected(r) ==
    \E msg \in FailureMessages("Failed to fetch products") : FetchPaginatedRejectedWith(r, msg)

\* the bodies an ok response to the fetch-all request can carry: the route's
\* own, or those of a server that does not answer { data, pagination }
LegacyBodies ==
    {PaginatedBody(res.data) :
        res \in {x \in UNION {GetResponses(st, indexed, LegacyQuery) :
                                 st \in Catalogues, indexed \in BOOLEAN} :
                    x.status = 200}}
    \cup ForeignBodies

FetchProductsFulfilledWith(r, body) ==
    /\ r \in InFlight("fetchProducts")
    /\ state' = fetchProductsFulfilled(state, fetchProductsResult(body))
    /\ ev' = Event("fetchProducts/fulfilled", r)
    /\ Settle(r)
    /\ UNCHANGED <<nextReq, scn>>
    /\ UNCHANGED <<serverVars, setupVars, formVars, connVars, submitVars>>

FetchProductsFulfilled(r) == \E body \in LegacyBodies : FetchProductsFulfilledWith(r, body)

FetchProductsRejected(r) ==
    /\ r \in InFlight("fetchProducts")
    /\ \E msg \in FailureMessages("Failed to fetch products") :
         state' = rejectedCase(state, msg, "Failed to fetch products")
    /\ ev' = Event("fetchProducts/rejected", r)
    /\ Settle(r)
    /\ UNCHANGED <<nextReq, scn>>
    /\ UNCHANGED <<serverVars, setupVars, formVars, connVars, submitVars>>

\* the id the store assigns to a product this client creates
NewId == MaxProducts + 1

\* POST /api/products answers 201 with ProductService.createProduct's result
CreateResponse(productData) == ToJson(CreatedProduct(NewId, productData))

CreateProductFulfilled(r) ==
    /\ r \in InFlight("createProduct")
    /\ state' = createProductFulfilled(state, CreateResponse(TheValue(inflight[r].data)))
    /\ ev' = Event("createProduct/fulfilled", r)
    /\ Settle(r)
    /\ UNCHANGED <<nextReq, scn>>
    /\ UNCHANGED <<serverVars, setupVars, formVars, connVars, submitVars>>

CreateProductRejected(r) ==
    /\ r \in InFlight("createProduct")
    /\ \E msg \in FailureMessages("Failed to create product") :
         state' = rejectedCase(state, msg, "Failed to create product")
    /\ ev' = Event("createProduct/rejected", r)
    /\ Settle(r)
    /\ UNCHANGED <<nextReq, scn>>
    /\ UNCHANGED <<serverVars, setupVars, formVars, connVars, submitVars>>

\* the record PUT /api/products/:id answers with: the stored product of that id
UpdateResponses(product) ==
    {q \in {ClientMug, ClientCup, ClientMugEdited} : q["id"] = product["id"]}

UpdateProductFulfilledWith(r, payload) ==
    /\ r \in InFlight("updateProduct")
    /\ state' = updateProductFulfilled(state, payload)
    /\ ev' = Event("updateProduct/fulfilled", r)
    /\ Settle(r)
    /\ UNCHANGED <<nextReq, scn>>
    /\ UNCHANGED <<serverVars, setupVars, formVars, connVars, submitVars>>

UpdateProductFulfilled(r) ==
    /\ r \in InFlight("updateProduct")
    /\ \E payload \in UpdateResponses(TheValue(inflight[r].data)) :
         UpdateProductFulfilledWith(r, payload)

UpdateProductRejected(r) ==
    /\ r \in InFlight("updateProduct")
    /\ \E msg \in FailureMessages("Failed to update product") :
         state' = rejectedCase(state, msg, "Failed to update product")
    /\ ev' = Event("updateProduct/rejected", r)
    /\ Settle(r)
    /\ UNCHANGED <<nextReq, scn>>
    /\ UNCHANGED <<serverVars, setupVars, formVars, connVars, submitVars>>

\* the deleteProduct payload creator returns the id it was given
DeleteProductFulfilled(r) ==
    /\ r \in InFlight("deleteProduct")
    /\ state' = deleteProductFulfilled(state, inflight[r].target)
    /\ ev' = Event("deleteProduct/fulfilled", r)
    /\ Settle(r)
    /\ UNCHANGED <<nextReq, scn>>
    /\ UNCHANGED <<serverVars, setupVars, formVars, connVars, submitVars>>

DeleteProductRejected(r) ==
    /\ r \in InFlight("deleteProduct")
    /\ \E msg \in FailureMessages("Failed to delete product") :
         state' = rejectedCase(state, msg, "Failed to delete product")
    /\ ev' = Event("deleteProduct/rejected", r)
    /\ Settle(r)
    /\ UNCHANGED <<nextReq, scn>>
    /\ UNCHANGED <<serverVars, setupVars, formVars, connVars, submitVars>>

----------------------------------------------------------------------------
(* Index setup: initializeIndexes, ProductService.createIndexes, initIndexes *)

\* the four indexes, in the order the routines create them
IndexNames ==
    <<"product_search_index", "category_index", "created_at_index",
      "category_created_at_index">>

IndexSet == {IndexNames[i] : i \in DOMAIN IndexNames}

Routines == {"initializeIndexes", "createIndexes", "initIndexes"}

NoSetup ==
    [routine |-> "none", todo |-> {}, errors |-> 0, outcome |-> "none", runs |-> 0]

\* a routine is called; it completes before the next one is called here
StartRoutine(r) ==
    /\ setup.outcome # "running"
    /\ setup.runs < MaxRuns
    /\ setup' = [routine |-> r, todo |-> IndexSet, errors |-> 0,
                 outcome |-> "running", runs |-> setup.runs + 1]
    /\ UNCHANGED <<indexes>>
    /\ UNCHANGED <<serverVars, clientVars, formVars, connVars, submitVars>>

\* the createIndex calls that can settle next: any of the pending ones under
\* Promise.all, the first one left in the sequential routines
NextIndexes(s) ==
    IF s.routine = "initializeIndexes" THEN s.todo
    ELSE {IndexNames[i] : i \in {i \in DOMAIN IndexNames :
                                    /\ IndexNames[i] \in s.todo
                                    /\ \A j \in 1..(i - 1) : IndexNames[j] \notin s.todo}}

\* a slip: the error of createIndex is not caught
OnCreateIndexError_Uncaught(routine) == "raise"

\* what a routine does with an error of createIndex: initializeIndexes has a
\* .catch on every call and initIndexes a try/catch around every call (both go
\* on); createIndexes has one try/catch around the four calls (it logs and
\* returns, leaving the calls after the failed one undone)
OnCreateIndexError(routine) ==
    IF routine = "createIndexes" THEN "stop" ELSE "continue"

\* the routine is done when nothing is left to do; initIndexes then still lists
\* the indexes
AfterCreateIndex(routine, todo) ==
    IF todo = {} /\ routine # "initIndexes" THEN "completed" ELSE "running"

\* one createIndex call settles: the index exists afterwards, or the call
\* reports an error (whether or not the index existed)
CreateIndex(name, fails) ==
    /\ setup.outcome = "running"
    /\ name \in NextIndexes(setup)
    /\ IF ~fails
       THEN /\ hasTextIndex' = (hasTextIndex \/ name = IndexNames[1])
            /\ indexes' = indexes \cup ({name} \ {IndexNames[1]})
            /\ setup' = [setup EXCEPT
                            !.todo = @ \ {name},
                            !.outcome = AfterCreateIndex(setup.routine,
                                                         setup.todo \ {name})]
       ELSE /\ UNCHANGED <<hasTextIndex, indexes>>
            /\ LET after == OnCreateIndexError(setup.routine)
               IN setup' =
                    IF after = "raise"
                    THEN [setup EXCEPT !.outcome = "raised", !.errors = @ + 1]
                    ELSE IF after = "stop"
                    THEN [setup EXCEPT !.todo = {}, !.outcome = "completed",
                                       !.errors = @ + 1]
                    ELSE [setup EXCEPT
                            !.todo = @ \ {name}, !.errors = @ + 1,
                            !.outcome = AfterCreateIndex(setup.routine,
                                                         setup.todo \ {name})]
    /\ UNCHANGED <<store, now, nextId, req, resp, accessLog, svcRet, createdRet,
                   updatedIds>>
    /\ UNCHANGED <<clientVars, formVars, connVars, submitVars>>

\* initIndexes: await productsCollection.indexes() inside the outer try, whose
\* catch logs; then finally closes the client
ListIndexes(fails) ==
    /\ setup.routine = "initIndexes"
    /\ setup.outcome = "running"
    /\ setup.todo = {}
    /\ setup' = [setup EXCEPT !.outcome = "completed",
                              !.errors = IF fails THEN @ + 1 ELSE @]
    /\ UNCHANGED <<indexes>>
    /\ UNCHANGED <<serverVars, clientVars, formVars, connVars, submitVars>>

----------------------------------------------------------------------------
(* The connection: clientPromise and getDatabase *)

\* before the module is evaluated: no promise, no connect() call, no caller
NoConn ==
    [mode |-> "none", promise |-> "none", connects |-> 0, loads |-> 0,
     calls |-> <<>>]

\* a slip: every evaluation of the module connects
NeedsConnect_Always(mode, promise) == TRUE

\* production connects when the module is evaluated; development connects only
\* if global._mongoClientPromise is not set yet
NeedsConnect(mode, promise) == mode = "production" \/ promise = "none"

\* the module is evaluated: once in production, and again after a hot reload
\* in development, where the promise is kept in a global
LoadModule(mode) ==
    /\ conn.loads < MaxLoads
    /\ \/ conn.mode = "none"
       \/ conn.mode = "development" /\ mode = "development"
    /\ conn' = IF NeedsConnect(mode, conn.promise)
               THEN [conn EXCEPT !.mode = mode, !.loads = @ + 1,
                                 !.promise = "pending", !.connects = @ + 1]
               ELSE [conn EXCEPT !.mode = mode, !.loads = @ + 1]
    /\ UNCHANGED <<serverVars, clientVars, setupVars, formVars, submitVars>>

\* client.connect() settles: the promise is resolved or rejected for good
ConnectSettles(ok) ==
    /\ conn.promise = "pending"
    /\ conn' = [conn EXCEPT !.promise = IF ok THEN "resolved" ELSE "rejected"]
    /\ UNCHANGED <<serverVars, clientVars, setupVars, formVars, submitVars>>

\* getDatabase() is called (by getCollection, by a route): it awaits clientPromise
GetDatabaseCalled ==
    /\ conn.mode # "none"
    /\ Len(conn.calls) < MaxCalls
    /\ conn' = [conn EXCEPT !.calls = Append(@, "awaiting")]
    /\ UNCHANGED <<serverVars, clientVars, setupVars, formVars, submitVars>>

\* the await of call c ends: with the client (client.db is returned) or with
\* the rejection of the promise
GetDatabaseReturns(c) ==
    /\ c \in DOMAIN conn.calls
    /\ conn.calls[c] = "awaiting"
    /\ conn.promise \in {"resolved", "rejected"}
    /\ conn' = [conn EXCEPT !.calls[c] =
                    IF conn.promise = "resolved" THEN "db" ELSE "throws"]
    /\ UNCHANGED <<serverVars, clientVars, setupVars, formVars, submitVars>>

----------------------------------------------------------------------------
(* The product form dialog: submission *)

\* the five angles and their image fields, in the order onSubmit tests them
AngleNames == <<"front", "back", "left", "right", "material">>

ImageFields == <<"frontImage", "backImage", "leftImage", "rightImage", "materialImage">>

\* a slip: the new angles are added to the ones the form held
DerivedAngles_KeepsPrior(values) ==
    LET Pushed(angles, a) ==
            IF values[ImageFields[a]] # "" THEN Append(angles, AngleNames[a]) ELSE angles
        prior == IF values.angles = {} THEN <<>> ELSE TheValue(values.angles)
    IN Pushed(Pushed(Pushed(Pushed(Pushed(prior, 1), 2), 3), 4), 5)

\* const angles = []; if (cleanedValues.frontImage) angles.push('front'); ...
DerivedAngles(values) ==
    LET Pushed(angles, a) ==
            IF values[ImageFields[a]] # "" THEN Append(angles, AngleNames[a]) ELSE angles
    IN Pushed(Pushed(Pushed(Pushed(Pushed(<<>>, 1), 2), 3), 4), 5)

\* a slip: a blank url counts as a url
HasUrl_NotTrimmed(img) == "url" \in DOMAIN img /\ img["url"] # <<>>

\* img.url && img.url.trim() !== ''
HasUrl(img) == "url" \in DOMAIN img /\ img["url"] # <<>> /\ Trim(img["url"]) # <<>>

\* values.variations.map(v => ({ ...v, images: v.images?.filter(...) || [] }))
CleanedVariations(variations) ==
    [k \in DOMAIN variations |->
        [variations[k] EXCEPT !.images =
            JsonList(IF @.isArray THEN SelectSeq(@.elems, HasUrl) ELSE <<>>)]]

\* cleanedValues as handed to the onSubmit prop
CleanedValues(values) ==
    LET cleaned == [values EXCEPT !.variations = CleanedVariations(values.variations)]
    IN IF ~cleaned.hasVariations
       THEN [cleaned EXCEPT !.angles = {DerivedAngles(cleaned)}]
       ELSE cleaned

\* images as the form can hold them: with a url, without the key, with an
\* empty or a blank url
ImgU == [id |-> 1, angle |-> "front", is_primary |-> TRUE, url |-> <<"u">>]
ImgNoUrl == [id |-> 2, angle |-> "back", is_primary |-> FALSE]
ImgBlank == [id |-> 3, angle |-> "left", is_primary |-> FALSE, url |-> <<" ">>]
ImgV == [id |-> 4, angle |-> "right", is_primary |-> FALSE, url |-> <<"v">>]
ImgEmpty == [id |-> 5, angle |-> "front", is_primary |-> TRUE, url |-> <<>>]

SubmitVariations ==
    { <<>>,
      << [id |-> 1, images |-> JsonList(<<ImgU, ImgNoUrl, ImgBlank, ImgV>>)],
         [id |-> 2, images |-> JsonList(<<ImgEmpty>>)] >>,
      << [id |-> 1, images |-> NotAList],
         [id |-> 2, images |-> JsonList(<<ImgBlank, ImgU>>)] >> }

\* the values a form can hold when it is submitted (angles: what the edited
\* product carried, if anything)
FormValues ==
    [hasVariations : BOOLEAN,
     variations : SubmitVariations,
     angles : {{}, {<<"back">>}, {<<"front", "material">>}},
     frontImage : {"", " ", "u1"},
     backImage : {"", "u2"},
     leftImage : {"", "u3"},
     rightImage : {"", "u4"},
     materialImage : {"", "u5"}]

EmptyValues ==
    [hasVariations |-> FALSE, variations |-> <<>>, angles |-> {},
     frontImage |-> "", backImage |-> "", leftImage |-> "", rightImage |-> "",
     materialImage |-> ""]

NoSubmit == [phase |-> "none", values |-> EmptyValues, sent |-> EmptyValues]

\* the user has filled the form
FillForm(values) ==
    /\ submit.phase = "none"
    /\ submit' = [phase |-> "filled", values |-> values, sent |-> EmptyValues]
    /\ UNCHANGED <<serverVars, clientVars, setupVars, formVars, connVars>>

\* formik's onSubmit: the cleaned values are handed to the onSubmit prop
SubmitForm ==
    /\ submit.phase = "filled"
    /\ submit' = [submit EXCEPT !.phase = "submitted",
                                !.sent = CleanedValues(submit.values)]
    /\ UNCHANGED <<serverVars, clientVars, setupVars, formVars, connVars>>

\* the dialog is opened again for another product
ResetForm ==
    /\ submit.phase = "submitted"
    /\ submit' = NoSubmit
    /\ UNCHANGED <<serverVars, clientVars, setupVars, formVars, connVars>>

----------------------------------------------------------------------------
(* The product form dialog: variations and their images *)

\* the angles offered for a variation image (two of defaultAngles)
Angles == {"front", "back"}

\* the form before the dialog is opened; time stands for Date.now(), edits
\* counts the formik.setFieldValue("variations", ...) calls, ref names the
\* array that is the committed variations value
NoForm ==
    [open |-> FALSE, variations |-> <<>>, ref |-> 0, edits |-> 0, time |-> 0,
     last |-> "none"]

\* the name of the object or array built at position k by the handler running
\* now: no object built before carries it
Fresh(k) == <<form.edits + 1, k>>

VariationImage(id, angle, primary) ==
    [id |-> id, url |-> "", angle |-> angle, is_primary |-> primary]

NoColor == [name |-> "", hex_code |-> "#000000"]

\* the product handed to the dialog: a new one, or a stored one whose first
\* variation has images and whose second has no image list (their ids carry
\* times before the dialog's). ref and imagesRef name the variation object and
\* its images array.
InitialVariations ==
    { <<>>,
      << [id |-> <<"var", -1>>, color |-> NoColor, stockQuantity |-> 3,
          images |-> JsonList(<< VariationImage(<<"img", -1>>, "front", TRUE),
                                 VariationImage(<<"img", -2>>, "back", FALSE) >>),
          ref |-> <<0, 1>>, imagesRef |-> <<0, 1>>],
         [id |-> <<"var", -2>>, color |-> NoColor, stockQuantity |-> 0,
          images |-> NotAList, ref |-> <<0, 2>>, imagesRef |-> <<0, 2>>] >> }

\* Date.now() moves on between two handlers, or does not
FormTick ==
    /\ form.open
    /\ form.time < MaxFormTime
    /\ form' = [form EXCEPT !.time = @ + 1, !.last = "tick"]
    /\ UNCHANGED <<serverVars, clientVars, setupVars, connVars, submitVars>>

\* useFormik's initialValues: variations: initialValues.variations || []
OpenForm(initial) ==
    /\ ~form.open
    /\ form' = [form EXCEPT !.open = TRUE, !.variations = initial, !.last = "open"]
    /\ UNCHANGED <<serverVars, clientVars, setupVars, connVars, submitVars>>

\* formik.setFieldValue("variations", variations): the one commit of a handler
Commit(variations, handler) ==
    /\ form.edits < MaxEdits
    /\ form' = [form EXCEPT !.variations = variations, !.ref = form.edits + 1,
                            !.edits = @ + 1, !.last = handler]

\* [...formik.values.variations, newVariation]: a new array of the same
\* variation objects and the new one
addVariation ==
    /\ form.open
    /\ Len(form.variations) < MaxVariations
    /\ LET newVariation ==
            [id |-> <<"var", form.time>>, color |-> NoColor, stockQuantity |-> 0,
             images |-> JsonList(<<>>),
             ref |-> Fresh(Len(form.variations) + 1),
             imagesRef |-> Fresh(Len(form.variations) + 1)]
       IN Commit(Append(form.variations, newVariation), "addVariation")
    /\ UNCHANGED <<serverVars, clientVars, setupVars, connVars, submitVars>>

\* formik.values.variations.filter(v => v.id !== id)
removeVariation(id) ==
    /\ form.open
    /\ \E k \in DOMAIN form.variations : form.variations[k].id = id
    /\ LET Keep(v) == v.id # id
       IN Commit(SelectSeq(form.variations, Keep), "removeVariation")
    /\ UNCHANGED <<serverVars, clientVars, setupVars, connVars, submitVars>>

\* window.updateVariationFromColorPicker: a new array in which the variation
\* is a new object with the new colour; its images array is the old one
updateVariationFromColorPicker(variationIndex, hexValue, colorName) ==
    /\ form.open
    /\ variationIndex \in DOMAIN form.variations
    /\ LET current == form.variations[variationIndex]
           updated == [current EXCEPT
                         !.color = [name |-> IF colorName = "" THEN @.name
                                             ELSE colorName,
                                    hex_code |-> hexValue],
                         !.ref = Fresh(variationIndex)]
       IN Commit([form.variations EXCEPT ![variationIndex] = updated],
                 "updateVariationFromColorPicker")
    /\ UNCHANGED <<serverVars, clientVars, setupVars, connVars, submitVars>>

\* a slip: the copy is the array only, [...formik.values.variations]; the
\* variation objects and their images arrays are the committed ones
createVariationsCopy_Shallow(variations) == variations

\* a copy of the variations: every variation is a new object with a new images
\* array (an empty one if it had no image list)
createVariationsCopy(variations) ==
    [k \in DOMAIN variations |->
        [variations[k] EXCEPT !.images = IF @.isArray THEN @ ELSE JsonList(<<>>),
                              !.ref = Fresh(k),
                              !.imagesRef = Fresh(k)]]

\* variations[index] = { ...variations[index], ...updated } on the copy
updateVariation(variations, index, updated) ==
    [createVariationsCopy(variations) EXCEPT ![index] = Spread(@, updated)]

\* the images grid of a variation is drawn from variation.images, so the
\* inputs, buttons and radios below exist only for a variation that has an
\* image list
Drawn(varIdx) ==
    /\ form.open
    /\ varIdx \in DOMAIN form.variations
    /\ form.variations[varIdx].images.isArray

\* an input of the variation card: updateVariation(varIdx, { stockQuantity })
updateVariationField(varIdx, updated) ==
    /\ Drawn(varIdx)
    /\ Commit(updateVariation(form.variations, varIdx, updated), "updateVariation")
    /\ UNCHANGED <<serverVars, clientVars, setupVars, connVars, submitVars>>

\* images[imgIdx] = { ...images[imgIdx], ...updated } on a copy of the images
updateVariationImage(varIdx, imgIdx, updated) ==
    /\ Drawn(varIdx)
    /\ imgIdx \in DOMAIN form.variations[varIdx].images.elems
    /\ LET variations == createVariationsCopy(form.variations)
           images == variations[varIdx].images.elems
       IN Commit([variations EXCEPT ![varIdx].images =
                     JsonList([images EXCEPT ![imgIdx] = Spread(@, updated)])],
                 "updateVariationImage")
    /\ UNCHANGED <<serverVars, clientVars, setupVars, connVars, submitVars>>

\* a slip: every new image is the primary one
NewImageIsPrimary_Always(images) == TRUE

\* is_primary: variations[varIdx].images.length === 0
NewImageIsPrimary(images) == Len(images) = 0

\* the angle button is disabled once the variation has an image of that angle
addVariationImage(varIdx, angle) ==
    /\ Drawn(varIdx)
    /\ \A k \in DOMAIN form.variations[varIdx].images.elems :
            form.variations[varIdx].images.elems[k].angle # angle
    /\ LET variations == createVariationsCopy(form.variations)
           images == variations[varIdx].images.elems
           newImage == VariationImage(<<"img", form.time>>, angle,
                                      NewImageIsPrimary(images))
       IN Commit([variations EXCEPT ![varIdx].images =
                     JsonList(Append(images, newImage))],
                 "addVariationImage")
    /\ UNCHANGED <<serverVars, clientVars, setupVars, connVars, submitVars>>

removeVariationImage(varIdx, imgId) ==
    /\ Drawn(varIdx)
    /\ \E k \in DOMAIN form.variations[varIdx].images.elems :
            form.variations[varIdx].images.elems[k].id = imgId
    /\ LET variations == createVariationsCopy(form.variations)
           Keep(img) == img.id # imgId
       IN Commit([variations EXCEPT ![varIdx].images =
                     JsonList(SelectSeq(@.elems, Keep))],
                 "removeVariationImage")
    /\ UNCHANGED <<serverVars, clientVars, setupVars, connVars, submitVars>>

\* a slip: the radio sets its own flag and leaves the others as they are
PrimaryAt_KeepsOthers(images, imgIdx) ==
    [i \in DOMAIN images |->
        [images[i] EXCEPT !.is_primary = (@ \/ i = imgIdx)]]

\* variation.images.map((image, i) => ({ ...image, is_primary: i === imgIdx }))
PrimaryAt(images, imgIdx) ==
    [i \in DOMAIN images |-> [images[i] EXCEPT !.is_primary = (i = imgIdx)]]

\* the "Primary Image" radio of image imgIdx of variation varIdx is chosen
\* (positions count from 1 here)
setPrimary(varIdx, imgIdx) ==
    /\ Drawn(varIdx)
    /\ imgIdx \in DOMAIN form.variations[varIdx].images.elems
    /\ LET images == PrimaryAt(form.variations[varIdx].images.elems, imgIdx)
       IN Commit(updateVariation(form.variations, varIdx,
                                 [images |-> JsonList(images)]),
                 "setPrimary")
    /\ UNCHANGED <<serverVars, clientVars, setupVars, connVars, submitVars>>

----------------------------------------------------------------------------
(* Specifications *)

IdInputs == {IdToString(n) : n \in 1..MaxProducts} \cup {<<"z", "z">>}

Init ==
    /\ store = {}
    /\ now = 0
    /\ nextId = 1
    /\ hasTextIndex \in BOOLEAN
    /\ req = IdleReq
    /\ resp = NoResp
    /\ accessLog = {}
    /\ svcRet = NoRet
    /\ createdRet = <<>>
    /\ updatedIds = {}
    /\ state = initialState
    /\ inflight = <<>>
    /\ nextReq = 1
    /\ ev = Event("init", 0)
    /\ scn = NoScenario
    /\ indexes = {}
    /\ setup = NoSetup
    /\ form = NoForm
    /\ conn = NoConn
    /\ submit = NoSubmit

\* the read path: GET /api/products in steps, while products are created and
\* deleted by other requests
NextQuery ==
    \/ \E page \in PageParams, limit \in LimitParams,
          search \in SearchParams, categoryId \in CategoryParams :
          GetStart([page |-> page, limit |-> limit, search |-> search,
                    categoryId |-> categoryId])
    \/ \E op \in {"countDocuments", "countAggregate", "pageAggregate"} : GetFails(op)
    \/ SvcCountDocuments
    \/ \E threw \in BOOLEAN : SvcIndexExists(threw)
    \/ SvcCountAggregate
    \/ SvcPageAggregate
    \/ \E productData \in ProductDatas : OtherCreate(productData)
    \/ \E id \in {IdToString(n) : n \in 1..MaxProducts} : OtherDelete(id)
    \/ Tick

SpecQuery == Init /\ [][NextQuery]_vars

\* the CRUD calls of ProductService
NextCrud ==
    \/ \E productData \in ProductDatas : CreateProduct(productData)
    \/ \E id \in IdInputs : GetProductById(id)
    \/ \E id \in IdInputs, productData \in PartialDatas : UpdateProduct(id, productData)
    \/ \E id \in IdInputs : DeleteProduct(id)
    \/ Tick

SpecCrud == Init /\ [][NextCrud]_vars

\* index setup: the routines run one after another, any createIndex may fail;
\* every call the routine awaits settles
NextIndex ==
    \/ \E r \in Routines : StartRoutine(r)
    \/ \E name \in IndexSet, fails \in BOOLEAN : CreateIndex(name, fails)
    \/ \E fails \in BOOLEAN : ListIndexes(fails)

SpecIndex == Init /\ [][NextIndex]_vars /\ WF_vars(NextIndex)

\* the connection: module evaluations, the connect() outcome and getDatabase
\* calls in any order
NextConnect ==
    \/ \E mode \in {"development", "production"} : LoadModule(mode)
    \/ \E ok \in BOOLEAN : ConnectSettles(ok)
    \/ GetDatabaseCalled
    \/ \E c \in 1..MaxCalls : GetDatabaseReturns(c)

SpecConnect == Init /\ [][NextConnect]_vars

\* submissions of the product form
NextSubmit ==
    \/ \E values \in FormValues : FillForm(values)
    \/ SubmitForm
    \/ ResetForm

SpecSubmit == Init /\ [][NextSubmit]_vars

ImageIds == {<<"img", x>> : x \in (-2)..MaxFormTime}
VariationIds == {<<"var", x>> : x \in (-2)..MaxFormTime}
Positions == 1..(Cardinality(Angles) + 2)

\* the product form dialog: the variation handlers in any order
NextForm ==
    \/ \E initial \in InitialVariations : OpenForm(initial)
    \/ FormTick
    \/ addVariation
    \/ \E id \in VariationIds : removeVariation(id)
    \/ \E varIdx \in 1..MaxVariations, angle \in Angles :
            addVariationImage(varIdx, angle)
    \/ \E varIdx \in 1..MaxVariations, imgId \in ImageIds :
            removeVariationImage(varIdx, imgId)
    \/ \E varIdx \in 1..MaxVariations, imgIdx \in Positions :
            setPrimary(varIdx, imgIdx)
    \/ \E varIdx \in 1..MaxVariations : updateVariationField(varIdx, [stockQuantity |-> 5])
    \/ \E varIdx \in 1..MaxVariations, imgIdx \in Positions :
            updateVariationImage(varIdx, imgIdx, [url |-> "u1"])
    \/ \E varIdx \in 1..MaxVariations, colorName \in {"", "Red"} :
            updateVariationFromColorPicker(varIdx, "#ff0000", colorName)

SpecForm == Init /\ [][NextForm]_vars

\* the paginated catalogue view: setters, handlers and the responses
NextFetch ==
    \/ \E p \in Pages : SetPage(p)
    \/ \E t \in SearchTerms : SetSearchTerm(t)
    \/ \E c \in CategoryIds : SetSelectedCategory(c)
    \/ MountProductsView
    \/ \E p \in Pages : handlePageChange(p)
    \/ \E t \in SearchTerms : handleSearchChange(t)
    \/ \E ids \in {<<>>, <<sC1>>} : handleCategoryFilter(ids)
    \/ \E r \in DOMAIN inflight : FetchPaginatedFulfilled(r)
    \/ \E r \in DOMAIN inflight : FetchPaginatedRejected(r)

SpecFetch == Init /\ [][NextFetch]_vars

\* the fetch-all path and the mutating thunks
NextMutate ==
    \/ MountDesignTool
    \/ \E d \in ProductDatas : DispatchCreateProduct(d)
    \/ \E p \in {ClientCup, ClientMugEdited} : DispatchUpdateProduct(p)
    \/ \E id \in {IdToString(1), IdToString(2)} : DispatchDeleteProduct(id)
    \/ \E r \in DOMAIN inflight : FetchProductsFulfilled(r)
    \/ \E r \in DOMAIN inflight : FetchProductsRejected(r)
    \/ \E r \in DOMAIN inflight : CreateProductFulfilled(r)
    \/ \E r \in DOMAIN inflight : CreateProductRejected(r)
    \/ \E r \in DOMAIN inflight : UpdateProductFulfilled(r)
    \/ \E r \in DOMAIN inflight : UpdateProductRejected(r)
    \/ \E r \in DOMAIN inflight : DeleteProductFulfilled(r)
    \/ \E r \in DOMAIN inflight : DeleteProductRejected(r)

SpecMutate == Init /\ [][NextMutate]_vars

\* the page cache: pages are fetched and cached while the filters change and
\* products are created, updated and deleted
NextCache ==
    \/ MountProductsView
    \/ \E p \in Pages : handlePageChange(p)
    \/ \E t \in SearchTerms : SetSearchTerm(t)
    \/ \E c \in CategoryIds : SetSelectedCategory(c)
    \/ ClearPageCache
    \/ \E p \in Pages, products \in {<<>>, <<ClientMug>>} : CachePage(p, products)
    \/ \E r \in DOMAIN inflight : FetchPaginatedFulfilled(r)
    \/ \E d \in ProductDatas : DispatchCreateProduct(d)
    \/ \E p \in {ClientCup, ClientMugEdited} : DispatchUpdateProduct(p)
    \/ \E id \in {IdToString(1), IdToString(2)} : DispatchDeleteProduct(id)
    \/ \E r \in DOMAIN inflight : CreateProductFulfilled(r)
    \/ \E r \in DOMAIN inflight : UpdateProductFulfilled(r)
    \/ \E r \in DOMAIN inflight : DeleteProductFulfilled(r)

SpecCache == Init /\ [][NextCache]_vars

----------------------------------------------------------------------------
(* Claims: the read path (SpecQuery) *)

\* the filter of a request, spelled out: the category constraint and the
\* search constraint both hold
InFilter(d, r) ==
    /\ \/ r.categoryId = <<>>
       \/ r.categoryId = sAll
       \/ Read(d, "categoryId") = {r.categoryId}
    /\ \/ Trim(r.search) = <<>>
       \/ r.mc.mode = "text" /\ TextMatch(d, r.search)
       \/ r.mc.mode = "regex" /\ \/ RegexMatch(d, "name", r.search)
                                 \/ RegexMatch(d, "description", r.search)

\* C1: every successful answer of getProductsPaginated (page >= 1,
\* 1 <= limit <= 1000) carries totalPages = ceil(total / limit), that is the
\* least n with n * limit >= total, hasNext = (page < totalPages) and
\* hasPrev = (page > 1); page and limit are the request's; total is the number
\* of stored products in the filter when the count query runs.
C1_PaginationDerived ==
    /\ [](resp.status = 200 =>
            LET pg == resp.pagination
            IN /\ resp.page = Num(pg.page) /\ resp.limit = Num(pg.limit)
               /\ pg.page >= 1 /\ pg.limit >= 1 /\ pg.limit <= 1000
               /\ pg.totalPages * pg.limit >= pg.total
               /\ (pg.totalPages - 1) * pg.limit < pg.total
               /\ pg.hasNext = (pg.page < pg.totalPages)
               /\ pg.hasPrev = (pg.page > 1)
               /\ (pg.total = 0 => pg.totalPages = 0 /\ ~pg.hasNext))
    /\ [][/\ (req.pc = "countAggregate" /\ req'.pc = "pageAggregate") =>
                req'.total = Cardinality({d \in store : InFilter(d, req')})
          /\ (req.pc = "pageAggregate" /\ resp'.status = 200) =>
                resp'.pagination.total = req.total]_vars

\* C1 witness: page 1 of two matching products with limit 1: two pages, a next
\* page and no previous one.
C1_Witness ==
    /\ resp.status = 200
    /\ resp.pagination.total = 2
    /\ resp.pagination.limit = 1
    /\ resp.pagination.page = 1
    /\ resp.pagination.totalPages = 2
    /\ resp.pagination.hasNext
    /\ ~resp.pagination.hasPrev

\* page < 1, limit < 1 or limit > 1000, on the parsed numbers
BadPagination(page, limit) ==
    \/ ~page.nan /\ page.val < 1
    \/ ~limit.nan /\ (limit.val < 1 \/ limit.val > 1000)

\* C2: a read request with page < 1, limit < 1 or limit > 1000 is answered with
\* an error response, and no store read is ever made for such parameters.
C2_RejectedBeforeStore ==
    /\ \A a \in accessLog \cup resp.accesses : ~BadPagination(a.page, a.limit)
    /\ (resp.status # 0 /\ BadPagination(resp.page, resp.limit)) =>
          /\ resp.status = 500
          /\ resp.error = "Invalid pagination parameters"
          /\ resp.accesses = {}
          /\ resp.data = <<>>

\* C2 witness: limit = 1001 was answered with the error and without a store read.
C2_Witness ==
    /\ resp.status = 500
    /\ resp.limit = Num(1001)
    /\ resp.page = Num(1)
    /\ resp.accesses = {}

----------------------------------------------------------------------------
(* Claims: the CRUD calls (SpecCrud) *)

\* C10: the Product returned by createProduct and the Product returned by a
\* following getProductById on its id, with no update in between, agree on
\* every field of the normalized product shape (undefined where absent).
C10_RoundTrip ==
    (/\ svcRet.op = "getProductById"
     /\ svcRet.outcome = "product"
     /\ svcRet.id \in DOMAIN createdRet
     /\ svcRet.id \notin updatedIds) =>
        \A k \in ProjectFields :
            Get(createdRet[svcRet.id], k) = Get(svcRet.product, k)

----------------------------------------------------------------------------
(* Claims: the paginated catalogue view (SpecFetch) *)

\* the payloads request r can be fulfilled with
Payloads(r) ==
    {[data |-> res.data, pagination |-> res.pagination] : res \in OkResponses(r)}

PaginatedTypes ==
    {"fetchProductsPaginated/pending", "handlePageChange", "handleSearchChange",
     "handleCategoryFilter"}

\* every request in flight before the step, r excepted, is in flight after it
OthersStayInFlight(r) ==
    \A o \in (DOMAIN inflight) \ {r} : o \in DOMAIN inflight' /\ inflight'[o] = inflight[o]

\* C3: fetchProductsPaginated.rejected leaves loading = false and error = the
\* failure message, and items, pagination, pageCache, searchTerm and
\* selectedCategory as they were.
C3_RejectedKeepsLastPage ==
    [][\A r \in DOMAIN inflight :
         \A msg \in FailureMessages("Failed to fetch products") :
            FetchPaginatedRejectedWith(r, msg) =>
               /\ state'.loading = FALSE
               /\ state'.error = {msg}
               /\ state'.items = state.items
               /\ state'.pagination = state.pagination
               /\ state'.pageCache = state.pageCache
               /\ state'.searchTerm = state.searchTerm
               /\ state'.selectedCategory = state.selectedCategory]_vars

\* C3 witness: a fetch was rejected while a fetched page is in state: the page
\* is still there, with the error.
C3_Witness ==
    /\ ev.type = "fetchProductsPaginated/rejected"
    /\ state.items.elems # <<>>
    /\ state.pagination.total > 0
    /\ 1 \in DOMAIN state.pageCache
    /\ state.error # {}
    /\ ~state.loading

\* C4: fetchProductsPaginated.fulfilled with payload {data, pagination} leaves
\* loading = false, items = data, pagination = payload.pagination and
\* pageCache[payload.pagination.page] = data; the other pageCache entries,
\* searchTerm, selectedCategory and error are as they were.
C4_FulfilledReplacesPage ==
    [][\A r \in DOMAIN inflight :
         \A payload \in Payloads(r) :
            FetchPaginatedFulfilledWith(r, payload) =>
               /\ state'.loading = FALSE
               /\ state'.items = JsonList(payload.data)
               /\ state'.pagination = payload.pagination
               /\ DOMAIN state'.pageCache =
                     (DOMAIN state.pageCache) \cup {payload.pagination.page}
               /\ state'.pageCache[payload.pagination.page] = payload.data
               /\ \A k \in (DOMAIN state.pageCache) \ {payload.pagination.page} :
                     state'.pageCache[k] = state.pageCache[k]
               /\ state'.searchTerm = state.searchTerm
               /\ state'.selectedCategory = state.selectedCategory
               /\ state'.error = state.error]_vars

\* C4 witness: a page was fulfilled while another page is cached and an error
\* of an earlier rejection is stored: both are still there.
C4_Witness ==
    /\ ev.type = "fetchProductsPaginated/fulfilled"
    /\ state.items.elems # <<>>
    /\ state.pagination.page = 1
    /\ DOMAIN state.pageCache = {1, 2}
    /\ state.pageCache[1] = state.items.elems
    /\ state.error # {}

\* C5: overlapping fetchProductsPaginated requests are not coalesced, cancelled
\* or fenced: a dispatch leaves every earlier request in flight, a request
\* settling leaves the others in flight, and a fulfilled response overwrites
\* items and pagination whatever was dispatched after it; a rejected one
\* leaves them. Hence the state holds the payload fulfilled last.
C5_LastFulfilledWins ==
    [][/\ \A r \in DOMAIN inflight :
            \A payload \in Payloads(r) :
               FetchPaginatedFulfilledWith(r, payload) =>
                  /\ state'.items = JsonList(payload.data)
                  /\ state'.pagination = payload.pagination
                  /\ OthersStayInFlight(r)
       /\ ev'.type = "fetchProductsPaginated/rejected" =>
             /\ state'.items = state.items
             /\ state'.pagination = state.pagination
             /\ OthersStayInFlight(ev'.req)
       /\ ev'.type \in PaginatedTypes =>
             /\ OthersStayInFlight(0)
             /\ DOMAIN inflight' = (DOMAIN inflight) \cup {nextReq}
             /\ state'.items = state.items]_vars

\* C5 witness: request 1 (page 1) and then request 2 (page 2) were dispatched,
\* 2 was fulfilled first and 1 last: all have settled and the state holds the
\* payload of request 1.
C5_Witness ==
    /\ nextReq = 3
    /\ inflight = <<>>
    /\ ev = Event("fetchProductsPaginated/fulfilled", 1)
    /\ 2 \in DOMAIN state.pageCache
    /\ state.pagination.page = 1
    /\ state.items.elems # <<>>
    /\ state.items.elems = state.pageCache[1]

\* what a setter leaves alone
SetterFrame ==
    /\ state'.items = state.items
    /\ state'.loading = state.loading
    /\ state'.error = state.error
    /\ state'.pageCache = state.pageCache
    /\ state'.pagination.limit = state.pagination.limit
    /\ state'.pagination.total = state.pagination.total
    /\ state'.pagination.totalPages = state.pagination.totalPages
    /\ state'.pagination.hasNext = state.pagination.hasNext
    /\ state'.pagination.hasPrev = state.pagination.hasPrev
    /\ inflight' = inflight

\* C6: setPage(p) sets pagination.page = p; setSearchTerm(t) sets searchTerm = t
\* and pagination.page = 1; setSelectedCategory(c) sets selectedCategory = c and
\* pagination.page = 1. None changes items, loading, error, pageCache or the
\* other pagination fields, and none starts a fetch.
C6_SettersOwnFields ==
    [][/\ \A p \in Pages :
            SetPage(p) =>
               /\ state'.pagination.page = p
               /\ state'.searchTerm = state.searchTerm
               /\ state'.selectedCategory = state.selectedCategory
               /\ SetterFrame
       /\ \A t \in SearchTerms :
            SetSearchTerm(t) =>
               /\ state'.searchTerm = t
               /\ state'.pagination.page = 1
               /\ state'.selectedCategory = state.selectedCategory
               /\ SetterFrame
       /\ \A c \in CategoryIds :
            SetSelectedCategory(c) =>
               /\ state'.selectedCategory = c
               /\ state'.pagination.page = 1
               /\ state'.searchTerm = state.searchTerm
               /\ SetterFrame]_vars

\* C6 witness: page 2 was fetched, then setSearchTerm alone was dispatched: the
\* page is back to 1, the fetched pagination and cache are kept, nothing is in
\* flight.
C6_Witness ==
    /\ nextReq = 3
    /\ ev.type = "setSearchTerm"
    /\ state.searchTerm = sSearchMug
    /\ state.pagination.page = 1
    /\ state.pagination.total = 2
    /\ 2 \in DOMAIN state.pageCache
    /\ inflight = <<>>

\* the fetches of the search-then-category sequence carry page = 1
ScenarioFetchesCarryPageOne ==
    \A r \in scn.reqs \cap DOMAIN inflight : inflight[r].page = 1

ScenarioSettled == scn.phase = 2 /\ scn.reqs \cap DOMAIN inflight = {}

\* C7: from any state, after handleSearchChange (setSearchTerm and its fetch)
\* followed by handleCategoryFilter (setSelectedCategory and its fetch), both
\* fetches carry page = 1 and pagination.page is 1 once they have settled.
C7_PageOneAfterFilters ==
    /\ ScenarioFetchesCarryPageOne
    /\ ScenarioSettled => state.pagination.page = 1

\* C7 as amended: the same, from any state in which no other
\* fetchProductsPaginated request is in flight.
C7_PageOneAfterFiltersWhenAlone ==
    /\ ScenarioFetchesCarryPageOne
    /\ (ScenarioSettled /\ scn.clean) => state.pagination.page = 1

\* C7 witness: page 2 had been fetched; then search and category were changed and
\* both fetches settled, the last one fulfilled: the page is 1.
C7_Witness ==
    /\ ScenarioSettled
    /\ scn.clean
    /\ ev.type = "fetchProductsPaginated/fulfilled"
    /\ 2 \in DOMAIN state.pageCache
    /\ state.searchTerm = sSearchMug
    /\ state.selectedCategory = sC1
    /\ state.pagination.page = 1

----------------------------------------------------------------------------
(* Claims: the design tool's product list (SpecMutate) *)

MutationTypes == {"createProduct", "updateProduct", "deleteProduct"}

\* the list with every element of the given id replaced by the product
ReplacedById(l, product) ==
    [i \in 1..Len(l) |-> IF l[i]["id"] = product["id"] THEN product ELSE l[i]]

\* the list without the elements of the given id
RemovedById(l, id) ==
    LET Keep(x) == x["id"] # id IN SelectSeq(l, Keep)

\* C8: createProduct.fulfilled appends the returned product to items,
\* updateProduct.fulfilled replaces the element whose id is the payload's,
\* deleteProduct.fulfilled removes every element of the deleted id; the pending
\* and rejected cases leave items alone; no mutation changes pagination or
\* starts a fetch.
C8_MutationsPatchItems ==
    [][/\ \A r \in DOMAIN inflight :
            /\ ev' = Event("createProduct/fulfilled", r) =>
                  state'.items =
                     JsonList(Append(state.items.elems,
                                     CreateResponse(TheValue(inflight[r].data))))
            /\ \A payload \in {ClientMug, ClientCup, ClientMugEdited} :
                  UpdateProductFulfilledWith(r, payload) =>
                     state'.items = JsonList(ReplacedById(state.items.elems, payload))
            /\ ev' = Event("deleteProduct/fulfilled", r) =>
                  state'.items =
                     JsonList(RemovedById(state.items.elems, inflight[r].target))
       /\ \A t \in MutationTypes :
            /\ ev'.type \in {t \o "/pending", t \o "/rejected"} =>
                  state'.items = state.items
            /\ ev'.type \in {t \o "/pending", t \o "/fulfilled", t \o "/rejected"} =>
                  /\ state'.pagination = state.pagination
                  /\ InFlight("fetchProducts")' = InFlight("fetchProducts")
                  /\ InFlight("fetchProductsPaginated")' = InFlight("fetchProductsPaginated")
      ]_vars

\* C9: fetchProducts never leaves a non-list in items: the payload creator
\* yields an empty list for an ok response whose body has no array-valued
\* data property.
C9_ItemsIsAList ==
    ev.type = "fetchProducts/fulfilled" =>
       /\ state.items.isArray
       /\ \A body \in LegacyBodies :
             ~(body.hasData /\ body.data.isArray) =>
                fetchProductsResult(body) = JsonList(<<>>)

----------------------------------------------------------------------------
(* Claims: ProductService create, read by id, update, delete (SpecCrud) *)

\* the stored products whose id prints as the given string
StoredWithId(st, id) == {d \in st : IdToString(d["_id"]) = id}

\* every field name a returned product or a stored document can carry
AllFields == ProjectFields \cup UNION {DOMAIN d : d \in ProductDatas}

\* two returned products read the same on every field
SameFields(p, q) == \A k \in AllFields : Get(p, k) = Get(q, k)

\* C11: every operation that returns a Product returns the same fields for
\* the same stored document: the paginated projection, getAllProducts and the
\* product just returned by createProduct, getProductById or updateProduct
\* read the same on every field, a field the document lacks reading undefined.
C11_SameShapeEverywhere ==
    /\ \A d \in store :
          /\ SameFields(ProjectedProduct(d), NormalizedProduct(d))
          /\ NormalizedProduct(d) \in GetAllProducts(store)
    /\ svcRet.outcome = "product" =>
          \A d \in StoredWithId(store, svcRet.id) :
             SameFields(svcRet.product, NormalizedProduct(d))

\* C12: getProductById(id) returns null without raising both for a malformed
\* id and for a well-formed id no stored product has; it returns a product only
\* when a stored product has exactly that id, and then that product.
C12_GetByIdNotFoundIsNull ==
    [][\A id \in IdInputs :
         GetProductById(id) =>
            IF StoredWithId(store, id) = {}
            THEN svcRet'.outcome = "null"
            ELSE /\ svcRet'.outcome = "product"
                 /\ svcRet'.product["id"] = {id}]_vars

\* C13: updateProduct(id, partial) on an existing product overwrites exactly the
\* fields of partial, sets updatedAt to the time of the update, keeps id and
\* createdAt and returns the record as updated; on an id that matches no
\* product it returns null and leaves the store as it was.
C13_UpdateMergesPartial ==
    [][\A id \in IdInputs, partial \in PartialDatas :
         UpdateProduct(id, partial) =>
            IF StoredWithId(store, id) = {}
            THEN svcRet'.outcome = "null" /\ store' = store
            ELSE \E old \in StoredWithId(store, id) :
                 \E new \in StoredWithId(store', id) :
                    /\ store' \ {new} = store \ {old}
                    /\ DOMAIN new = (DOMAIN old) \cup (DOMAIN partial) \cup {"updatedAt"}
                    /\ \A k \in DOMAIN partial : new[k] = partial[k]
                    /\ new["updatedAt"] = now
                    /\ \A k \in (DOMAIN old) \ ((DOMAIN partial) \cup {"updatedAt"}) :
                          new[k] = old[k]
                    /\ new["_id"] = old["_id"] /\ new["createdAt"] = old["createdAt"]
                    /\ svcRet'.outcome = "product"
                    /\ svcRet'.product = NormalizedProduct(new)]_vars

\* C14: deleteProduct(id) returns true exactly when it removed one product: for
\* an id a stored product has it removes that product only and returns true;
\* for an id that matches no product it returns false without raising and
\* leaves the store as it was.
C14_DeleteReportsRemoval ==
    [][\A id \in IdInputs :
         DeleteProduct(id) =>
            IF StoredWithId(store, id) = {}
            THEN svcRet'.outcome = "false" /\ store' = store
            ELSE /\ svcRet'.outcome = "true"
                 /\ store' = store \ StoredWithId(store, id)
                 /\ Cardinality(StoredWithId(store, id)) = 1]_vars

----------------------------------------------------------------------------
(* Claims: the search match, the page and store failures (SpecQuery) *)

CategoryOk(d, r) ==
    r.categoryId = <<>> \/ r.categoryId = sAll \/ Read(d, "categoryId") = {r.categoryId}

\* the term occurs in name or description, whatever the case of the letters
InSubstringFilter(d, r) ==
    /\ CategoryOk(d, r)
    /\ \E f \in {"name", "description"} :
          f \in DOMAIN d /\ Contains(LowerStr(d[f]), LowerStr(r.search))

\* C15: with a non-empty search term, a failing probe for the text index does
\* not fail the request: the request goes on with the case-insensitive
\* substring match on name and description, as it does when the probe reports
\* that the index does not exist, and the count and the page are those of that
\* match.
C15_ProbeErrorFallsBack ==
    [][/\ \A threw \in BOOLEAN :
            (SvcIndexExists(threw) /\ (threw \/ ~hasTextIndex)) =>
               /\ req'.pc = "countAggregate"
               /\ resp' = NoResp
               /\ req'.mc.mode = "regex"
       /\ (req.mc.mode = "regex" /\ req.pc = "countAggregate"
              /\ req'.pc = "pageAggregate") =>
             req'.total = Cardinality({d \in store : InSubstringFilter(d, req)})
       /\ (req.mc.mode = "regex" /\ req.pc = "pageAggregate" /\ resp'.status = 200) =>
             /\ resp'.pagination.total = req.total
             /\ \A i \in 1..Len(resp'.data) :
                   \E d \in store : /\ InSubstringFilter(d, req)
                                    /\ resp'.data[i] = ProjectedProduct(d)]_vars

\* C15 witness: the index exists, yet a search was answered with both products,
\* one of which only the substring match finds: the probe had failed.
C15_Witness ==
    /\ hasTextIndex
    /\ resp.status = 200
    /\ \E a \in resp.accesses : a.op = "indexExists"
    /\ Len(resp.data) = 2
    /\ resp.pagination.total = 2

\* the products the search matches on the text path and on the substring path
OnTextPath == Matching(store, [req.mc EXCEPT !.mode = "text"])

OnRegexPath == Matching(store, [req.mc EXCEPT !.mode = "regex"])

\* the term is one of the words of the field, whatever the case of the letters
HasWord(d, f, term) ==
    /\ f \in DOMAIN d
    /\ Contains(<<" ">> \o LowerStr(d[f]) \o <<" ">>,
                <<" ">> \o LowerStr(term) \o <<" ">>)

SingleWord(term) == term # <<>> /\ \A i \in 1..Len(term) : ~IsSpace(term[i])

CreatedAtOf(p) == CHOOSE t \in p["createdAt"] : TRUE

\* C17: for valid page and limit and a store not modified between the count and
\* the page query, data holds the matching products of positions skip+1 ..
\* skip+limit in createdAt-descending order, skip = (page-1)*limit: its length
\* is min(limit, max(0, total - skip)), it is ordered newest first, and its
\* i-th product has at most skip+i-1 matching products newer than it and at
\* least skip+i matching products not older than it.
C17_PageIsSortedSlice ==
    [][(req.pc = "pageAggregate" /\ resp'.status = 200
           /\ req.total = Cardinality(Matching(store, req.mc))) =>
          LET data == resp'.data
              limit == req.limit.val
              skip == (req.page.val - 1) * limit
              rest == IF req.total - skip > 0 THEN req.total - skip ELSE 0
              matching == {ProjectedProduct(d) : d \in Matching(store, req.mc)}
          IN /\ Len(data) = (IF limit < rest THEN limit ELSE rest)
             /\ \A i \in 1..Len(data) :
                   /\ data[i] \in matching
                   /\ \A j \in 1..Len(data) :
                         /\ i < j => CreatedAtOf(data[i]) >= CreatedAtOf(data[j])
                         /\ i # j => data[i] # data[j]
                   /\ Cardinality({m \in matching : CreatedAtOf(m) > CreatedAtOf(data[i])})
                         <= skip + i - 1
                   /\ Cardinality({m \in matching : CreatedAtOf(m) >= CreatedAtOf(data[i])})
                         >= skip + i]_vars

\* C17 witness: page 2 with limit 1 over two products created at different
\* times: the one product returned is the older one.
C17_Witness ==
    /\ resp.status = 200
    /\ resp.pagination.page = 2
    /\ resp.pagination.limit = 1
    /\ resp.pagination.total = 2
    /\ Len(resp.data) = 1
    /\ \E d \in store : d["createdAt"] > CreatedAtOf(resp.data[1])

\* the order of the store calls of one getProductsPaginated
PcRank(pc) ==
    CASE pc = "countDocuments" -> 1
      [] pc = "indexExists" -> 2
      [] pc = "countAggregate" -> 3
      [] pc = "pageAggregate" -> 4
      [] OTHER -> 5

\* C18: a store failure in the count queries or in the page query ends the
\* request at once with a structured error ({error, details}, status 500) and
\* no data; no store call of a request is made a second time.
C18_StoreFailureAnswersOnce ==
    [][/\ \A op \in {"countDocuments", "countAggregate", "pageAggregate"} :
            GetFails(op) =>
               /\ resp'.status = 500
               /\ resp'.error = "Failed to fetch products"
               /\ resp'.details # {}
               /\ resp'.data = <<>>
               /\ resp'.pagination = NoPagination
               /\ Access(op, req) \in resp'.accesses
               /\ req'.pc = "idle"
       /\ (req.pc # "idle" /\ (accessLog' # accessLog \/ req' # req)) =>
             PcRank(req'.pc) > PcRank(req.pc)]_vars

\* C18 witness: the page query failed after the count had succeeded: the answer
\* is the structured error without data.
C18_Witness ==
    /\ resp.status = 500
    /\ resp.error = "Failed to fetch products"
    /\ resp.details = {"store failure"}
    /\ \E a \in resp.accesses : a.op = "pageAggregate"
    /\ \E a \in resp.accesses : a.op = "countAggregate"
    /\ resp.data = <<>>

----------------------------------------------------------------------------
(* Claims: index setup (SpecIndex) *)

\* C19: index setup is idempotent: a run of initializeIndexes, createIndexes or
\* initIndexes, the first or a later one, with indexes already there and with
\* createIndex calls reporting errors, never raises, and it completes.
C19_IndexSetupNeverFails ==
    /\ [](setup.outcome # "raised")
    /\ [](setup.outcome = "running" => <>(setup.outcome = "completed"))

\* C19 witness: a second run completed over the indexes of the first although a
\* createIndex call reported an error.
C19_Witness ==
    /\ setup.runs = 2
    /\ setup.outcome = "completed"
    /\ setup.errors >= 1
    /\ hasTextIndex
    /\ indexes = IndexSet \ {IndexNames[1]}

----------------------------------------------------------------------------
(* Claims: the product form dialog (SpecForm) *)

\* the images of a variation as the form reads them: a variation without an
\* image list has no images
ImagesOf(variation) ==
    IF variation.images.isArray THEN variation.images.elems ELSE <<>>

\* the fields of a variation other than its images (and not the names of the
\* objects that hold them)
OtherFields(variation) ==
    [k \in (DOMAIN variation) \ {"images", "ref", "imagesRef"} |-> variation[k]]

\* C20: choosing image imgIdx of variation varIdx as primary leaves exactly that
\* image primary in the variation, keeps the variation's images otherwise and
\* its other fields, and leaves every other variation with the fields and the
\* images it had.
C20_OnePrimaryPerVariation ==
    [][\A varIdx \in 1..MaxVariations, imgIdx \in Positions :
        setPrimary(varIdx, imgIdx) =>
            LET before == form.variations
                after == form'.variations
            IN /\ DOMAIN after = DOMAIN before
               /\ DOMAIN ImagesOf(after[varIdx]) = DOMAIN ImagesOf(before[varIdx])
               /\ \A i \in DOMAIN ImagesOf(after[varIdx]) :
                    /\ ImagesOf(after[varIdx])[i].is_primary = (i = imgIdx)
                    /\ ImagesOf(after[varIdx])[i].id = ImagesOf(before[varIdx])[i].id
                    /\ ImagesOf(after[varIdx])[i].angle
                         = ImagesOf(before[varIdx])[i].angle
               /\ OtherFields(after[varIdx]) = OtherFields(before[varIdx])
               /\ \A w \in (DOMAIN before) \ {varIdx} :
                    /\ ImagesOf(after[w]) = ImagesOf(before[w])
                    /\ OtherFields(after[w]) = OtherFields(before[w])]_vars

\* C20 witness: the radio of the second image was chosen in a variation whose
\* first image had been the primary one, next to another variation.
C20_Witness ==
    /\ form.last = "setPrimary"
    /\ Len(form.variations) = 2
    /\ \E v \in DOMAIN form.variations :
        /\ Len(ImagesOf(form.variations[v])) = 2
        /\ ~ImagesOf(form.variations[v])[1].is_primary
        /\ ImagesOf(form.variations[v])[2].is_primary

----------------------------------------------------------------------------
(* Claims: the filter, the two reads and the parsed parameters (SpecQuery) *)

\* the request gives neither a category nor a search constraint
Unconstrained(r) ==
    (r.categoryId = <<>> \/ r.categoryId = sAll) /\ (r.search = <<>> \/ Trim(r.search) = <<>>)

\* C24: the match filter is the conjunction of the category part (categoryId
\* absent, empty, "all", or equal to the product's) and the search part (search
\* absent, empty, blank, or matching the product on name or description); with
\* neither constraint every product matches; total counts this filtered set.
C24_FilterIsConjunction ==
    /\ [](req.pc \in {"countAggregate", "pageAggregate"} =>
            /\ \A d \in store : Matches(d, req.mc) <=> InFilter(d, req)
            /\ Unconstrained(req) => Matching(store, req.mc) = store)
    /\ [][(req.pc = "countAggregate" /\ req'.pc = "pageAggregate") =>
             req'.total = Cardinality({d \in store : InFilter(d, req)})]_vars

\* C24 witness: category c1 and search "mug" over a store whose other product
\* matches the search only: the count is 1 of 2.
C24_Witness ==
    /\ req.pc = "pageAggregate"
    /\ req.categoryId = sC1
    /\ req.search = sSearchMug
    /\ req.mc.mode = "regex"
    /\ req.total = 1
    /\ Cardinality(store) = 2
    /\ \E d \in store : ~CategoryOk(d, req) /\ RegexMatch(d, "description", req.search)

\* min(limit, max(0, total - skip))
ExpectedLength(limit, total, skip) ==
    LET rest == IF total - skip > 0 THEN total - skip ELSE 0
    IN IF limit < rest THEN limit ELSE rest

\* C29: the count query and the page query are two reads of the store, each of
\* the store as it is when the read runs: total is the number of matching
\* products at the count, data is the page of the matching products at the
\* page query. (With a create or delete in between, data.length differs from
\* min(limit, max(0, total - skip)): the witness.)
C29_CountAndPageReadSeparately ==
    [][/\ (req.pc = "countAggregate" /\ req'.pc = "pageAggregate") =>
             req'.total = Cardinality(Matching(store, req.mc))
       /\ (req.pc = "pageAggregate" /\ resp'.status = 200) =>
             /\ resp'.pagination.total = req.total
             /\ Len(resp'.data) =
                   ExpectedLength(req.limit.val,
                                  Cardinality(Matching(store, req.mc)),
                                  (req.page.val - 1) * req.limit.val)]_vars

\* C29 witness: an answer whose data is shorter or longer than its own total,
\* page and limit allow.
C29_Witness ==
    /\ resp.status = 200
    /\ Len(resp.data) #
          ExpectedLength(resp.pagination.limit, resp.pagination.total,
                         (resp.pagination.page - 1) * resp.pagination.limit)

\* the queries a request can carry
Queries ==
    [page : PageParams, limit : LimitParams, search : SearchParams,
     categoryId : CategoryParams]

\* C30: a request whose page or limit is present but parses to NaN is answered
\* "Invalid pagination parameters" and no store read is made for it; an absent
\* or empty parameter, and only such a one, takes the default (1 and 10).
C30_NonNumericRejected ==
    /\ [](/\ \A a \in accessLog \cup resp.accesses : ~a.page.nan /\ ~a.limit.nan
          /\ (resp.status # 0 /\ (resp.page.nan \/ resp.limit.nan)) =>
                /\ resp.error = "Invalid pagination parameters"
                /\ resp.accesses = {})
    /\ [][\A q \in Queries :
            (GetStart(q) /\ req'.pc # "idle") =>
               /\ req'.page = (IF ~q.page.present \/ q.page.s = <<>>
                               THEN Num(1) ELSE ParseInt(q.page.s))
               /\ req'.limit = (IF ~q.limit.present \/ q.limit.s = <<>>
                                THEN Num(10) ELSE ParseInt(q.limit.s))]_vars

----------------------------------------------------------------------------
(* Claims: the shared loading and error flags (SpecMutate) *)

\* an operation was dispatched in this step / an operation settled in this step
Dispatched == (DOMAIN inflight) \subseteq (DOMAIN inflight') /\ DOMAIN inflight' # DOMAIN inflight

Settled == (DOMAIN inflight') \subseteq (DOMAIN inflight) /\ DOMAIN inflight' # DOMAIN inflight

\* C28: loading and error are shared by all operations: every pending
\* transition sets loading = true and error = null and changes nothing else,
\* and every fulfilled or rejected transition sets loading = false, whatever
\* else is in flight.
C28_SharedLoadingFlag ==
    [][/\ Dispatched => state' = [state EXCEPT !.loading = TRUE, !.error = {}]
       /\ Settled => ~state'.loading]_vars

----------------------------------------------------------------------------
(* Claims: the page cache (SpecCache) *)

FulfilledTypes ==
    {"fetchProductsPaginated/fulfilled", "fetchProducts/fulfilled",
     "createProduct/fulfilled", "updateProduct/fulfilled", "deleteProduct/fulfilled"}

\* the cache after the step is the cache before it with one page written
OnePageWritten ==
    /\ (DOMAIN state.pageCache) \subseteq (DOMAIN state'.pageCache)
    /\ \E p \in DOMAIN state'.pageCache :
          /\ DOMAIN state'.pageCache = (DOMAIN state.pageCache) \cup {p}
          /\ \A k \in (DOMAIN state.pageCache) \ {p} :
                state'.pageCache[k] = state.pageCache[k]

\* C25: pageCache is only written: items changes only by a fulfilled response
\* (never by a step that reads the cache); a change of search term or category
\* and a completed create, update or delete leave every entry as it is; only
\* clearPageCache removes entries and only a write for the same page number
\* (a fulfilled page or cachePage) replaces one.
C25_PageCacheOnlyWritten ==
    [][/\ state'.items # state.items => ev'.type \in FulfilledTypes
       /\ state'.pageCache # state.pageCache =>
             \/ ev'.type = "clearPageCache" /\ state'.pageCache = <<>>
             \/ /\ ev'.type \in {"fetchProductsPaginated/fulfilled", "cachePage"}
                /\ OnePageWritten
       /\ \A t \in SearchTerms : SetSearchTerm(t) => state'.pageCache = state.pageCache
       /\ \A c \in CategoryIds :
             SetSelectedCategory(c) => state'.pageCache = state.pageCache
       /\ \A r \in DOMAIN inflight :
             (CreateProductFulfilled(r) \/ UpdateProductFulfilled(r)
                 \/ DeleteProductFulfilled(r)) =>
                state'.pageCache = state.pageCache]_vars

\* C25 witness: page 1 was cached with both products; the cup was then deleted
\* and category c1 selected: the cache still holds the cup, of category c2,
\* which items no longer has.
C25_Witness ==
    /\ ev.type = "setSelectedCategory"
    /\ state.selectedCategory = sC1
    /\ 1 \in DOMAIN state.pageCache
    /\ \E i \in DOMAIN state.pageCache[1] : state.pageCache[1][i] = ClientCup
    /\ state.items.isArray
    /\ \A i \in DOMAIN state.items.elems : state.items.elems[i] # ClientCup

----------------------------------------------------------------------------
(* Claims: the connection (SpecConnect) *)

\* C27: connect() is invoked at most once per process; every getDatabase call,
\* also one issued before the connection has completed, awaits the one
\* promise and ends as the promise does; a settled promise stays as it is, so
\* a failed first connection is what every later call observes.
C27_ConnectsOnce ==
    /\ [](/\ conn.connects <= 1
          /\ \A c \in DOMAIN conn.calls :
                /\ conn.calls[c] = "db" => conn.promise = "resolved"
                /\ conn.calls[c] = "throws" => conn.promise = "rejected")
    /\ [][/\ conn.promise \in {"resolved", "rejected"} => conn'.promise = conn.promise
          /\ conn'.connects >= conn.connects]_vars

\* C27 witness: the one connection failed; the module was evaluated twice and
\* every getDatabase call, at least two of them, ended with that failure.
C27_Witness ==
    /\ conn.promise = "rejected"
    /\ conn.connects = 1
    /\ conn.loads = 2
    /\ Len(conn.calls) >= 2
    /\ \A c \in DOMAIN conn.calls : conn.calls[c] = "throws"

----------------------------------------------------------------------------
(* Claims: form submission (SpecSubmit) *)

\* the position of an angle name in the fixed order
AnglePosition(name) == CHOOSE a \in DOMAIN AngleNames : AngleNames[a] = name

\* C21: a product submitted without variations carries as angles exactly the
\* names, among front, back, left, right, material, whose image field is not
\* empty, in that order, whatever angles the form held; with only frontImage
\* set the list is <<"front">>.
C21_AnglesFromImageFields ==
    (submit.phase = "submitted" /\ ~submit.values.hasVariations) =>
        /\ submit.sent.angles # {}
        /\ LET angles == TheValue(submit.sent.angles)
           IN /\ \A a \in DOMAIN AngleNames :
                    (\E i \in DOMAIN angles : angles[i] = AngleNames[a])
                       <=> submit.values[ImageFields[a]] # ""
              /\ \A i, j \in DOMAIN angles :
                    i < j => AnglePosition(angles[i]) < AnglePosition(angles[j])
              /\ (/\ submit.values.frontImage # ""
                  /\ \A a \in 2..5 : submit.values[ImageFields[a]] = "")
                    => angles = <<"front">>

\* C21 witness: the form held angles <<"back">> and only a front image: the
\* submitted angles are <<"front">>.
C21_Witness ==
    /\ submit.phase = "submitted"
    /\ ~submit.values.hasVariations
    /\ submit.values.angles = {<<"back">>}
    /\ submit.values.frontImage = "u1"
    /\ \A a \in 2..5 : submit.values[ImageFields[a]] = ""
    /\ submit.sent.angles = {<<"front">>}

\* the image has a url with a character that is not white space
NonBlankUrl(img) ==
    "url" \in DOMAIN img /\ \E i \in DOMAIN img["url"] : ~IsSpace(img["url"][i])

\* C22: the submitted variations are the form's variations, one for one, each
\* with the images that have a non-blank url, in their order, and no other
\* image; a variation without such an image (or without an image list) is
\* submitted with an empty list.
C22_IncompleteImagesStripped ==
    submit.phase = "submitted" =>
        LET before == submit.values.variations
            after == submit.sent.variations
        IN /\ DOMAIN after = DOMAIN before
           /\ \A k \in DOMAIN after :
                LET orig == IF before[k].images.isArray THEN before[k].images.elems
                            ELSE <<>>
                    kept == {j \in DOMAIN orig : NonBlankUrl(orig[j])}
                    sent == after[k].images.elems
                IN /\ after[k].id = before[k].id
                   /\ after[k].images.isArray
                   /\ Len(sent) = Cardinality(kept)
                   /\ \A i \in DOMAIN sent :
                         \E j \in kept :
                            /\ Cardinality({h \in kept : h < j}) = i - 1
                            /\ sent[i] = orig[j]

\* C22 witness: of four images the first and the last are submitted, and the
\* second variation, whose only image has an empty url, is submitted with no
\* image.
C22_Witness ==
    /\ submit.phase = "submitted"
    /\ Len(submit.sent.variations) = 2
    /\ Len(submit.values.variations[1].images.elems) = 4
    /\ submit.sent.variations[1].images.elems = <<ImgU, ImgV>>
    /\ Len(submit.values.variations[2].images.elems) = 1
    /\ submit.sent.variations[2].images = JsonList(<<>>)

----------------------------------------------------------------------------
(* Claims: the variations editor (SpecForm) *)

\* C23: every editing operation commits a new variations array with a single
\* update of the form state, and the committed array, its variation objects
\* and their images arrays are not changed in place: an object or array of the
\* old value that is part of the new value is as it was.
C23_CopyOnWrite ==
    [][form'.variations # form.variations =>
          LET before == form.variations
              after == form'.variations
          IN /\ form.open => form'.edits = form.edits + 1
             /\ form.open => form'.ref # form.ref
             /\ \A k \in DOMAIN before :
                   \A h \in DOMAIN after :
                      /\ after[h].ref = before[k].ref => after[h] = before[k]
                      /\ after[h].imagesRef = before[k].imagesRef =>
                            after[h].images = before[k].images]_vars

\* C23 witness: an image was added to a variation next to another one; every
\* variation object and images array of the new value was built by this edit.
C23_Witness ==
    /\ form.last = "addVariationImage"
    /\ form.edits >= 2
    /\ Len(form.variations) = 2
    /\ \A k \in DOMAIN form.variations :
          /\ form.variations[k].ref = <<form.edits, k>>
          /\ form.variations[k].imagesRef = <<form.edits, k>>

\* the number of images of a variation that are marked primary
Primaries(variation) ==
    Cardinality({i \in DOMAIN ImagesOf(variation) : ImagesOf(variation)[i].is_primary})

\* C26: from variations with at most one primary image each (the empty list
\* among them), the editor operations keep at most one image marked primary
\* in every variation.
C26_AtMostOnePrimary ==
    \A k \in DOMAIN form.variations : Primaries(form.variations[k]) <= 1

\* C26 witness: a second image was added to a variation: the first one is
\* still the only primary one.
C26_Witness ==
    /\ form.last = "addVariationImage"
    /\ \E k \in DOMAIN form.variations :
          /\ Len(ImagesOf(form.variations[k])) = 2
          /\ ImagesOf(form.variations[k])[1].is_primary
          /\ Primaries(form.variations[k]) = 1

====
